---------------------------- MODULE Spec2Model ----------------------------
(***************************************************************************)
(* A model of src/utils.py: the LossTrackingCallback training monitor, the *)
(* retrieval evaluator (get_ROC_data, get_AUC), calculate_metrics, the      *)
(* class-wise metrics, mergekfold_results, the baseline predictors and     *)
(* get_embs.                                                               *)
(*                                                                         *)
(* Python scalars are exact rationals <<numerator, denominator>> in lowest *)
(* terms; Python's None is the pair <<0, 0>>.                              *)
(***************************************************************************)
EXTENDS Integers, Sequences, FiniteSets, TLC

VARIABLES
    \* ---- LossTrackingCallback (one instance) ----
    train_loss_history,   \* self.train_loss_history
    val_loss_history,     \* self.val_loss_history
    epoch_train_loss,     \* self.epoch_train_loss, the step-loss accumulator
    auc_val_history,      \* self.auc_val_history
    R2_val_history,       \* self.R2_val_history
    R2_train_history,     \* self.R2_train_history
    callback_metrics,     \* trainer.callback_metrics as the last callback saw it
    calls,                \* how often each callback has been invoked
    nonempty_epoch_ends,  \* on_train_epoch_end calls that found a step loss
    val_loss_reports,     \* on_validation_epoch_end calls that found val_loss
    raised,               \* the exception the last callback raised, or "none"
    \* ---- get_ROC_data / get_AUC (one call) ----
    embs1,                \* the candidate embeddings, one vector per row
    embs2,                \* the query embeddings, one vector per row
    roc_pc,               \* "idle", "loop", "returned" or "raised"
    roc_fn,               \* the function called: "get_ROC_data" or "get_AUC"
    imgs,                 \* imgs: one num_right row per query handled so far
    fraction_correct,     \* the curve get_ROC_data returns
    auc,                  \* the scalar get_AUC returns
    \* ---- calculate_metrics (one call) ----
    y_true,               \* the true values
    y_true_label,         \* the true class labels
    y_pred,               \* the predicted values
    lc_data,              \* the light-curve payload, passed through
    label,                \* the model label
    combination,          \* the modality combination
    id,                   \* the fold id
    task,                 \* the task string
    cm_pc,                \* "idle", "returned" or "raised"
    cm_raised,            \* the exception calculate_metrics raised, or "none"
    metrics,              \* the Metrics Record returned
    results,              \* the Prediction Record returned
    \* ---- get_class_dependent_predictions (one call) ----
    inputs,               \* the Prediction Records handed in, one per row
    class_names,          \* the items of the class_names dict, in its order
    index,                \* the row df.iterrows() is at
    class_pos,            \* the item of class_names the inner loop is at
    class_results,        \* results: the Metrics Records emitted so far
    gcdp_pc,              \* "loop" or "returned"
    \* ---- mergekfold_results (one call) ----
    fold_results,         \* results: the Prediction Records handed in
    group_pos,            \* the group the loop over grouped is at
    concatenated_results, \* one row per group handled so far
    merge_pc,             \* "idle", "loop", "returned" or "raised"
    merge_raised,         \* the exception raised, or "none"
    \* ---- get_linear_predictions / get_knn_predictions (one call) ----
    predictor,            \* the function called
    X,                    \* the training features, one number per example
    Y,                    \* the training targets
    X_val,                \* the validation features, or None
    Y_val,                \* the validation targets, or None
    n_neighbors,          \* k of get_knn_predictions
    pred_task,            \* the task string, a sequence of characters
    model,                \* the fitted estimator
    predictions,          \* predictions_tensor, the vector returned
    pred_pc,              \* "idle", "fitted", "returned" or "raised"
    pred_raised,          \* the exception raised, or "none"
    \* ---- get_embs (one call) ----
    combinations,         \* the modality names asked for, a list
    ret_combs,            \* whether the names are returned too
    dataloader,           \* the batches in iteration order, as example numbers
    batch_pos,            \* the batch the loop is at
    embs_list,            \* per slot, the per-batch embeddings appended so far
    encoder_calls,        \* the encoders invoked so far: <<modality, batch>>
    embs_returned,        \* the value returned
    embs_pc,              \* "loop", "returned" or "raised"
    embs_raised,          \* the exception raised, or "none"
    \* ---- filter_classes (one call) ----
    X_list,               \* the feature matrices, one row per example
    y_labels,             \* y, flattened: the label of each example
    fc_lc_data,           \* lc_data: a dict of tensors, or None
    target_classes,       \* the original class labels to keep, a list
    filtered_X_list,      \* [X[mask] for X in X_list]
    filtered_lc_data,     \* {key: value[mask]}, or None
    filtered_y,           \* y_flat[mask]
    remapped_y,           \* the remapped label vector
    remap_pos,            \* the entry of target_classes the loop is at
    fc_pc,                \* "start", "remap" or "returned"
    \* ---- get_checkpoint_paths (one call) ----
    walk,                 \* what os.walk(root_dir) yields: dirpath, filenames
    dir_pos,              \* the directory the outer loop is at
    file_pos,             \* the filename the inner loop is at
    smallest_epoch,       \* the smallest epoch seen in the directory, or inf
    path_of_smallest,     \* the path of the file it was seen in, or None
    ckpt_paths,           \* the paths stored so far
    ckpt_returned,        \* the three lists returned
    ckpt_pc,              \* "scan" or "returned"
    \* ---- plot_ROC_curves (one call) ----
    plot_combinations,    \* combinations, as handed in
    embs_train,           \* the tensors of get_embs, each by its modality
    pair_i,               \* i of the loop over pairs of tensors
    pair_j,               \* j of the loop over pairs of tensors
    curve_labels,         \* per curve, its label and the tensors it used
    plot_pc               \* "loop", "plotted" or "NameError"

ltc_vars == <<train_loss_history, val_loss_history, epoch_train_loss,
              auc_val_history, R2_val_history, R2_train_history,
              callback_metrics, calls, nonempty_epoch_ends, val_loss_reports,
              raised>>

roc_vars == <<embs1, embs2, roc_pc, roc_fn, imgs, fraction_correct, auc>>

cm_vars == <<y_true, y_true_label, y_pred, lc_data, label, combination, id,
             task, cm_pc, cm_raised, metrics, results>>

gcdp_vars == <<inputs, class_names, index, class_pos, class_results, gcdp_pc>>

\* The components that aggregate records
merge_vars == <<fold_results, group_pos, concatenated_results, merge_pc,
                merge_raised>>

pred_vars == <<predictor, X, Y, X_val, Y_val, n_neighbors, pred_task, model,
               predictions, pred_pc, pred_raised>>

embs_vars == <<combinations, ret_combs, dataloader, batch_pos, embs_list,
               encoder_calls, embs_returned, embs_pc, embs_raised>>

fc_vars == <<X_list, y_labels, fc_lc_data, target_classes, filtered_X_list,
             filtered_lc_data, filtered_y, remapped_y, remap_pos, fc_pc>>

ckpt_vars == <<walk, dir_pos, file_pos, smallest_epoch, path_of_smallest,
               ckpt_paths, ckpt_returned, ckpt_pc>>

plot_vars ==
    <<plot_combinations, embs_train, pair_i, pair_j, curve_labels, plot_pc>>

rest_vars == <<gcdp_vars, merge_vars, pred_vars, embs_vars, fc_vars, ckpt_vars,
               plot_vars>>

vars == <<ltc_vars, roc_vars, cm_vars, rest_vars>>

\* What a step of one component leaves alone: the other components
OnlyLTC == UNCHANGED <<roc_vars, cm_vars, rest_vars>>

OnlyROC == UNCHANGED <<ltc_vars, cm_vars, rest_vars>>

OnlyCM == UNCHANGED <<ltc_vars, roc_vars, rest_vars>>

OnlyGCDP ==
    UNCHANGED <<ltc_vars, roc_vars, cm_vars, merge_vars, pred_vars, embs_vars,
                fc_vars, ckpt_vars, plot_vars>>

OnlyMerge ==
    UNCHANGED <<ltc_vars, roc_vars, cm_vars, gcdp_vars, pred_vars, embs_vars,
                fc_vars, ckpt_vars, plot_vars>>

OnlyPred ==
    UNCHANGED <<ltc_vars, roc_vars, cm_vars, gcdp_vars, merge_vars, embs_vars,
                fc_vars, ckpt_vars, plot_vars>>

OnlyFC ==
    UNCHANGED <<ltc_vars, roc_vars, cm_vars, gcdp_vars, merge_vars, pred_vars,
                embs_vars, ckpt_vars, plot_vars>>

OnlyCkpt ==
    UNCHANGED <<ltc_vars, roc_vars, cm_vars, gcdp_vars, merge_vars, pred_vars,
                embs_vars, fc_vars, plot_vars>>

OnlyPlot ==
    UNCHANGED <<ltc_vars, roc_vars, cm_vars, gcdp_vars, merge_vars, pred_vars,
                embs_vars, fc_vars, ckpt_vars>>

OnlyEmbs ==
    UNCHANGED <<ltc_vars, roc_vars, cm_vars, gcdp_vars, merge_vars, pred_vars,
                fc_vars, ckpt_vars, plot_vars>>

-----------------------------------------------------------------------------
(* Scalars *)

None == <<0, 0>>

RECURSIVE GCD(_, _)
GCD(a, b) == IF b = 0 THEN a ELSE GCD(b, a % b)

Abs(x) == IF x < 0 THEN -x ELSE x

\* n / d as Python's true division computes it, for d > 0
Frac(n, d) == LET g == GCD(Abs(n), d) IN <<n \div g, d \div g>>

\* tensor.detach().item() of a scalar tensor holding v
Item(v) == <<v, 1>>

RECURSIVE SumSeq(_)
SumSeq(s) == IF s = <<>> THEN 0 ELSE Head(s) + SumSeq(Tail(s))

-----------------------------------------------------------------------------
(* LossTrackingCallback *)

\* Bound on the number of callback invocations of one run
MaxCalls == 4

\* Bound on the step losses a training step reports
MaxLoss == 2

LossValues == 1..MaxLoss

\* Bound on the scalar metrics the trainer logs; 0 is the scalar whose tensor
\* is falsy
MaxMetric == 1

MetricValues == 0..MaxMetric

CallbackNames == {"on_train_batch_end", "on_train_epoch_end",
                  "on_validation_epoch_end", "on_validation_end"}

MetricNames == {"val_loss", "R2_train", "R2_val", "AUC_val",
                "AUC_val1", "AUC_val2", "AUC_val3"}

\* An absent key: trainer.callback_metrics.get(key) is None
NoMetrics == [k \in MetricNames |-> None]

\* The metric store with exactly the keys of the function given
Logged(f) == [k \in MetricNames |-> IF k \in DOMAIN f THEN f[k] ELSE None]

OptMetric == {None} \cup {Item(v) : v \in MetricValues}

\* The sub-scores AUC_val1..AUC_val3: none logged, all three logged (the
\* first falsy or truthy), or only the first one logged
SubScores == {<<None, None, None>>,
              <<Item(0), Item(1), Item(2)>>,
              <<Item(1), Item(1), Item(2)>>,
              <<Item(1), None, None>>}

\* outputs of a training step: a dict holding the loss tensor under "loss"
\* (isdict), or the loss tensor itself
Outputs == [isdict : BOOLEAN, value : LossValues]

\* The metric stores a callback is handed: the keys it never reads are absent
TrainEpochFeeds == {Logged([R2_train |-> v]) : v \in {None, Item(1)}}

ValEpochFeeds == {Logged([val_loss |-> v]) : v \in OptMetric}

ValEndFeeds ==
    {Logged([R2_val |-> r, AUC_val |-> a, AUC_val1 |-> s[1],
             AUC_val2 |-> s[2], AUC_val3 |-> s[3]]) :
        r \in {None, Item(1)}, a \in OptMetric, s \in SubScores}

\* bool(tensor) of a scalar metric, bool(None)
Truthy(m) == m # None /\ m[1] # 0

TotalCalls == calls["on_train_batch_end"] + calls["on_train_epoch_end"]
              + calls["on_validation_epoch_end"] + calls["on_validation_end"]

Count(name) == [calls EXCEPT ![name] = @ + 1]

\* __init__
InitLTC ==
    /\ train_loss_history = <<>>
    /\ val_loss_history = <<>>
    /\ epoch_train_loss = <<>>
    /\ auc_val_history = <<>>
    /\ R2_val_history = <<>>
    /\ R2_train_history = <<>>
    /\ callback_metrics = NoMetrics
    /\ calls = [c \in CallbackNames |-> 0]
    /\ nonempty_epoch_ends = 0
    /\ val_loss_reports = 0
    /\ raised = "none"

on_train_batch_end(outputs) ==
    LET loss == outputs.value  \* outputs["loss"] if isdict, else outputs
    IN  /\ TotalCalls < MaxCalls
        /\ OnlyLTC
        /\ epoch_train_loss' = Append(epoch_train_loss, loss)
        /\ calls' = Count("on_train_batch_end")
        /\ raised' = "none"
        /\ UNCHANGED <<train_loss_history, val_loss_history, auc_val_history,
                       R2_val_history, R2_train_history, callback_metrics,
                       nonempty_epoch_ends, val_loss_reports>>

on_train_epoch_end(trainer) ==
    /\ TotalCalls < MaxCalls
    /\ OnlyLTC
    /\ calls' = Count("on_train_epoch_end")
    /\ callback_metrics' = trainer
    /\ nonempty_epoch_ends' =
           nonempty_epoch_ends + (IF epoch_train_loss # <<>> THEN 1 ELSE 0)
    /\ UNCHANGED <<val_loss_history, auc_val_history, R2_val_history,
                   val_loss_reports>>
    /\ IF Len(epoch_train_loss) = 0
       THEN \* sum([]) / len([]): ZeroDivisionError before anything is stored
            /\ raised' = "ZeroDivisionError"
            /\ UNCHANGED <<train_loss_history, R2_train_history,
                           epoch_train_loss>>
       ELSE LET epoch_loss == Frac(SumSeq(epoch_train_loss),
                                   Len(epoch_train_loss))
            IN  /\ train_loss_history' = Append(train_loss_history, epoch_loss)
                /\ R2_train_history' =
                       Append(R2_train_history, trainer["R2_train"])
                /\ epoch_train_loss' = <<>>
                /\ raised' = "none"

\* on_validation_epoch_end without its "is not None" test: a placeholder
\* is appended for a validation epoch that reported no val_loss
on_validation_epoch_end_unguarded(trainer) ==
    /\ TotalCalls < MaxCalls
    /\ OnlyLTC
    /\ calls' = Count("on_validation_epoch_end")
    /\ callback_metrics' = trainer
    /\ raised' = "none"
    /\ val_loss_reports' =
           val_loss_reports + (IF trainer["val_loss"] # None THEN 1 ELSE 0)
    /\ val_loss_history' = Append(val_loss_history, trainer["val_loss"])
    /\ UNCHANGED <<train_loss_history, epoch_train_loss, auc_val_history,
                   R2_val_history, R2_train_history, nonempty_epoch_ends>>

\* on_validation_epoch_end, were it to clear the step losses accumulated
\* so far in the running training epoch
on_validation_epoch_end_resetting(trainer) ==
    /\ TotalCalls < MaxCalls
    /\ OnlyLTC
    /\ calls' = Count("on_validation_epoch_end")
    /\ callback_metrics' = trainer
    /\ raised' = "none"
    /\ val_loss_reports' =
           val_loss_reports + (IF trainer["val_loss"] # None THEN 1 ELSE 0)
    /\ IF trainer["val_loss"] # None
       THEN val_loss_history' = Append(val_loss_history, trainer["val_loss"])
       ELSE UNCHANGED val_loss_history
    /\ epoch_train_loss' = <<>>
    /\ UNCHANGED <<train_loss_history, auc_val_history, R2_val_history,
                   R2_train_history, nonempty_epoch_ends>>

on_validation_epoch_end(trainer) ==
    LET val_loss == trainer["val_loss"]
    IN  /\ TotalCalls < MaxCalls
        /\ OnlyLTC
        /\ calls' = Count("on_validation_epoch_end")
        /\ callback_metrics' = trainer
        /\ raised' = "none"
        /\ val_loss_reports' =
               val_loss_reports + (IF trainer["val_loss"] # None THEN 1 ELSE 0)
        /\ IF val_loss # None
           THEN val_loss_history' = Append(val_loss_history, val_loss)
           ELSE UNCHANGED val_loss_history
        /\ UNCHANGED <<train_loss_history, epoch_train_loss, auc_val_history,
                       R2_val_history, R2_train_history, nonempty_epoch_ends>>

\* sum([AUC_val1, AUC_val2, AUC_val3]) / 3 of three logged sub-scores
SubScoreMean(trainer) ==
    Frac(trainer["AUC_val1"][1] + trainer["AUC_val2"][1]
         + trainer["AUC_val3"][1], 3)

on_validation_end(trainer) ==
    LET auc_val  == trainer["AUC_val"]
        auc_val1 == trainer["AUC_val1"]
    IN  /\ TotalCalls < MaxCalls
        /\ OnlyLTC
        /\ calls' = Count("on_validation_end")
        /\ callback_metrics' = trainer
        /\ R2_val_history' = Append(R2_val_history, trainer["R2_val"])
        /\ UNCHANGED <<train_loss_history, val_loss_history, epoch_train_loss,
                       R2_train_history, nonempty_epoch_ends,
                       val_loss_reports>>
        /\ IF Truthy(auc_val) \/ Truthy(auc_val1)
           THEN IF auc_val = None
                THEN IF trainer["AUC_val2"] = None \/ trainer["AUC_val3"] = None
                     THEN \* None.detach(): AttributeError, after R2_val_history
                          \* was appended to
                          /\ raised' = "AttributeError"
                          /\ UNCHANGED auc_val_history
                     ELSE /\ auc_val_history' =
                                Append(auc_val_history, SubScoreMean(trainer))
                          /\ raised' = "none"
                ELSE /\ auc_val_history' = Append(auc_val_history, auc_val)
                     /\ raised' = "none"
           ELSE /\ raised' = "none"
                /\ UNCHANGED auc_val_history

NextLTC ==
    \/ \E outputs \in Outputs : on_train_batch_end(outputs)
    \/ \E trainer \in TrainEpochFeeds : on_train_epoch_end(trainer)
    \/ \E trainer \in ValEpochFeeds : on_validation_epoch_end(trainer)
    \/ \E trainer \in ValEndFeeds : on_validation_end(trainer)

-----------------------------------------------------------------------------
(* Rational arithmetic on <<numerator, denominator>> pairs *)

\* The sum over the least common denominator, to keep the integers small
FracAdd(p, q) ==
    LET g == GCD(p[2], q[2])
    IN  Frac(p[1] * (q[2] \div g) + q[1] * (p[2] \div g),
             (p[2] \div g) * q[2])

FracSub(p, q) == FracAdd(p, <<-q[1], q[2]>>)

FracMul(p, q) == Frac(p[1] * q[1], p[2] * q[2])

FracLeq(p, q) == p[1] * q[2] <= q[1] * p[2]

-----------------------------------------------------------------------------
(* get_ROC_data and get_AUC *)

\* Bound on the number of rows of an embedding set
MaxEmbs == 3

\* np.linspace(0, 1, 100): the number of thresholds
NumThresholds == 100

\* The embedding vectors a row is drawn from
EmbeddingVectors == {<<1, 0>>, <<1, 1>>}

EmbeddingSets == UNION {[1..n -> EmbeddingVectors] : n \in 1..MaxEmbs}

\* thresholds = np.linspace(0, 1, 100), the k-th of them (k = 1..100)
Threshold(k) == Frac(k - 1, NumThresholds - 1)

thresholds == [k \in 1..NumThresholds |-> Threshold(k)]

Dot(a, b) == a[1] * b[1] + a[2] * b[2]

Sign(x) == IF x > 0 THEN 1 ELSE IF x < 0 THEN -1 ELSE 0

\* a.norm() = 0: the normalised vector, and every similarity with it, is NaN
IsNaN(a, b) == Dot(a, a) = 0 \/ Dot(b, b) = 0

\* cosine_similarity(a, b) > cosine_similarity(c, b) in the order torch sorts
\* by, where NaN is greater than every number and equal to NaN
CosGreater(a, c, b) ==
    IF IsNaN(c, b) THEN FALSE
    ELSE IF IsNaN(a, b) THEN TRUE
    ELSE LET da == Dot(a, b)
             dc == Dot(c, b)
         IN  IF Sign(da) # Sign(dc) THEN Sign(da) > Sign(dc)
             ELSE IF Sign(da) > 0
                  THEN da * da * Dot(c, c) > dc * dc * Dot(a, a)
             ELSE IF Sign(da) < 0
                  THEN da * da * Dot(c, c) < dc * dc * Dot(a, a)
             ELSE FALSE

Permutations0(n) ==
    {p \in [1..n -> 0..(n - 1)] : \A i, j \in 1..n : i # j => p[i] # p[j]}

\* torch.argsort(cos_sim, descending=True) for the query emb_src: every
\* order of the candidate indices 0..n-1 with non-increasing similarity
\* (the sort is not stable: equal similarities come in any order)
ArgsortDescending(cands, emb_src) ==
    {p \in Permutations0(Len(cands)) :
        \A i, j \in 1..Len(cands) :
            i < j => ~CosGreater(cands[p[j] + 1], cands[p[i] + 1], emb_src)}

\* int(threshold * len(idx_sorted)) for the k-th threshold
Cut(k, n) == ((k - 1) * n) \div (NumThresholds - 1)

\* idx == idx_sorted[cut - 1]: the candidate at the cut, not the top of the
\* ranking down to it
InTopAtCut(idx, idx_sorted, cut) == cut >= 1 /\ idx_sorted[cut] = idx

\* idx in idx_sorted[: cut]
InTop(idx, idx_sorted, cut) == \E j \in 1..cut : idx_sorted[j] = idx

\* num_right of one query: one 0/1 flag per threshold
NumRight(idx, idx_sorted) ==
    [k \in 1..NumThresholds |->
        IF InTop(idx, idx_sorted, Cut(k, Len(idx_sorted))) THEN 1 ELSE 0]

RECURSIVE ColumnSum(_, _)
ColumnSum(rows, k) ==
    IF rows = <<>> THEN 0 ELSE Head(rows)[k] + ColumnSum(Tail(rows), k)

\* np.sum(imgs, axis=0) / len(embs2)
FractionCorrect(rows, m) ==
    [k \in 1..NumThresholds |-> Frac(ColumnSum(rows, k), m)]

\* d * y[:-1]: the left rectangle instead of the trapezoid
LeftRectangle(y, x, k) == FracMul(FracSub(x[k + 1], x[k]), y[k])

\* d * (y[1:] + y[:-1]) / 2.0 for the k-th interval, d = diff(x)
Trapezoid(y, x, k) ==
    FracMul(FracMul(FracSub(x[k + 1], x[k]), FracAdd(y[k + 1], y[k])),
            <<1, 2>>)

\* The sum of the terms lo..hi, added pairwise
RECURSIVE TrapzSum(_, _, _, _)
TrapzSum(y, x, lo, hi) ==
    IF lo > hi THEN <<0, 1>>
    ELSE IF lo = hi THEN Trapezoid(y, x, lo)
    ELSE LET mid == (lo + hi) \div 2
         IN  FracAdd(TrapzSum(y, x, lo, mid), TrapzSum(y, x, mid + 1, hi))

\* np.trapz(y, x): (diff(x) * (y[1:] + y[:-1]) / 2.0).sum()
Trapz(y, x) == TrapzSum(y, x, 1, Len(x) - 1)

NoCurve == <<>>

InitROC ==
    /\ embs1 \in EmbeddingSets
    /\ embs2 \in EmbeddingSets
    /\ roc_pc = "idle"
    /\ roc_fn = "none"
    /\ imgs = <<>>
    /\ fraction_correct = NoCurve
    /\ auc = None

\* get_ROC_data(embs1, embs2) is entered, directly or from get_AUC
EnterROC(fn) ==
    /\ OnlyROC
    /\ roc_pc = "idle"
    /\ roc_fn' = fn
    /\ roc_pc' = "loop"
    /\ UNCHANGED <<embs1, embs2, imgs, fraction_correct, auc>>

\* One pass of the loop over enumerate(embs2)
ROCLoopBody ==
    /\ OnlyROC
    /\ roc_pc = "loop"
    /\ Len(imgs) < Len(embs2)
    /\ LET idx     == Len(imgs)
           emb_src == embs2[idx + 1]
       IN  IF Len(embs1) = 1
           THEN \* squeeze() leaves a 0-d tensor: len(idx_sorted) is a TypeError
                /\ roc_pc' = "raised"
                /\ UNCHANGED imgs
           ELSE \E idx_sorted \in ArgsortDescending(embs1, emb_src) :
                    /\ imgs' = Append(imgs, NumRight(idx, idx_sorted))
                    /\ roc_pc' = "loop"
    /\ UNCHANGED <<embs1, embs2, roc_fn, fraction_correct, auc>>

\* After the loop: fraction_correct, and for get_AUC the integral
ROCReturn ==
    /\ OnlyROC
    /\ roc_pc = "loop"
    /\ Len(imgs) = Len(embs2)
    /\ fraction_correct' = FractionCorrect(imgs, Len(embs2))
    /\ auc' = IF roc_fn = "get_AUC"
              THEN Trapz(FractionCorrect(imgs, Len(embs2)), thresholds)
              ELSE None
    /\ roc_pc' = "returned"
    /\ UNCHANGED <<embs1, embs2, roc_fn, imgs>>

NextROC ==
    \/ \E fn \in {"get_ROC_data", "get_AUC"} : EnterROC(fn)
    \/ ROCLoopBody
    \/ ROCReturn

\* Bound on the slopes a / d of the curves handed to the integration
MaxSlope == 10

\* The curve min(1, (a / d) * threshold): the line through the origin of
\* slope a / d, clipped to 1; Ramp(1, 1) is the diagonal
Ramp(a, d) ==
    [k \in 1..NumThresholds |->
        IF a * (k - 1) >= d * (NumThresholds - 1) THEN <<1, 1>>
        ELSE Frac(a * (k - 1), d * (NumThresholds - 1))]

Ramps == {Ramp(a, d) : a \in 0..MaxSlope, d \in 1..MaxSlope}

\* get_AUC holds a curve of get_ROC_data and is about to integrate it
InitIntegrate ==
    /\ embs1 = <<>>
    /\ embs2 = <<>>
    /\ roc_pc = "loop"
    /\ roc_fn = "get_AUC"
    /\ imgs = <<>>
    /\ fraction_correct \in Ramps
    /\ auc = None

\* auc = np.trapz(fraction_correct, thresholds)
Integrate ==
    /\ OnlyROC
    /\ roc_pc = "loop"
    /\ fraction_correct # NoCurve
    /\ auc' = Trapz(fraction_correct, thresholds)
    /\ roc_pc' = "returned"
    /\ UNCHANGED <<embs1, embs2, roc_fn, imgs, fraction_correct>>

-----------------------------------------------------------------------------
(* calculate_metrics *)

\* Bound on the length of y_true, y_true_label and y_pred
MaxLen == 2

\* The values of the three input vectors
TrueValues == {-2, -1, 0, 1}

ClassLabels == {0, 1}

PredictedValues == {-1, 0, 1, 2}

\* The task strings tried: the two the code knows, the one its docstring and
\* error message name, and a capitalised one
Tasks == {"regression", "classification", "redshift", "Regression"}

Vectors(values) == UNION {[1..n -> values] : n \in 1..MaxLen}

\* Non-finite floats
NaN == <<0, -1>>

PosInf == <<1, -1>>

NegInf == <<-1, -1>>

NoRecord == [none |-> TRUE]

\* Whether torch broadcasts two 1-d tensors of these lengths
Broadcastable(n, m) == n = m \/ n = 1 \/ m = 1

BroadcastLen(n, m) == IF n >= m THEN n ELSE m

\* Element i of a 1-d tensor broadcast to a longer length
At(v, i) == IF Len(v) = 1 THEN v[1] ELSE v[i]

\* y_true - y_pred
Residuals(t, q) ==
    [i \in 1..BroadcastLen(Len(t), Len(q)) |-> At(t, i) - At(q, i)]

RECURSIVE SumOver(_, _)
\* The sum of f[1..n]
SumOver(f, n) == IF n = 0 THEN 0 ELSE f[n] + SumOver(f, n - 1)

\* torch.mean(torch.abs(y_true - y_pred))
L1Norm(t, q) ==
    LET d == Residuals(t, q)
    IN  Frac(SumOver([i \in DOMAIN d |-> Abs(d[i])], Len(d)), Len(d))

\* torch.mean((y_true - y_pred) ** 2): L2 is its square root
MeanSquare(t, q) ==
    LET d == Residuals(t, q)
    IN  Frac(SumOver([i \in DOMAIN d |-> d[i] * d[i]], Len(d)), Len(d))

\* sum((y_true - y_pred) ** 2) / sum((y_true - mean(y_true)) ** 2), the
\* unexplained share, without the "1 -"
UnexplainedShare(t, q) ==
    LET d      == Residuals(t, q)
        n      == Len(t)
        ss_res == SumOver([i \in DOMAIN d |-> d[i] * d[i]], Len(d))
        total  == SumOver(t, n)
        ss_tot == SumOver([i \in 1..n |->
                              (n * t[i] - total) * (n * t[i] - total)], n)
    IN  IF ss_tot = 0
        THEN IF ss_res = 0 THEN NaN ELSE PosInf
        ELSE Frac(ss_res * n * n, ss_tot)

\* 1 - sum((y_true - y_pred) ** 2) / sum((y_true - mean(y_true)) ** 2); the
\* deviations from the mean are taken times len(y_true) to stay integral
RSquared(t, q) ==
    LET d      == Residuals(t, q)
        n      == Len(t)
        ss_res == SumOver([i \in DOMAIN d |-> d[i] * d[i]], Len(d))
        total  == SumOver(t, n)
        ss_tot == SumOver([i \in 1..n |->
                              (n * t[i] - total) * (n * t[i] - total)], n)
    IN  IF ss_tot = 0
        THEN IF ss_res = 0 THEN NaN ELSE NegInf
        ELSE FracSub(<<1, 1>>, Frac(ss_res * n * n, ss_tot))

\* The outlier test on the signed residual, without torch.abs
IsOutlierSigned(delta, true) ==
    IF 1 + true > 0 THEN 100 * delta > 15 * (1 + true)
    ELSE IF 1 + true = 0 THEN delta > 0
    ELSE FALSE

\* torch.abs(delta_z) / (1.0 + y_true) > 0.15 for one example: the float
\* division yields inf for 1 + y_true = 0 and a nonzero residual, NaN (which
\* compares False) for 0 / 0, and a value <= 0 for 1 + y_true < 0
IsOutlier(delta, true) ==
    IF 1 + true > 0 THEN 100 * Abs(delta) > 15 * (1 + true)
    ELSE IF 1 + true = 0 THEN Abs(delta) > 0
    ELSE FALSE

\* torch.mean(outliers.float())
OutlierFraction(t, q) ==
    LET d == Residuals(t, q)
    IN  Frac(SumOver([i \in DOMAIN d |->
                         IF IsOutlier(d[i], At(t, i)) THEN 1 ELSE 0], Len(d)),
             Len(d))

\* The rows where predicate P of (true label, predicted label) holds
CountRows(t, q, P(_, _)) == Cardinality({i \in DOMAIN t : P(t[i], q[i])})

\* accuracy_score, and the micro average of f1, precision and recall, which
\* for one label per example all equal it
Accuracy(t, q) == Frac(CountRows(t, q, LAMBDA a, b : a = b), Len(t))

\* Every class label there is, present in the data or not
AllClassLabels(t, q) == ClassLabels

\* The labels sklearn averages over: those in y_true or y_pred
LabelsOf(t, q) == {t[i] : i \in DOMAIN t} \cup {q[i] : i \in DOMAIN q}

TruePos(t, q, c) == CountRows(t, q, LAMBDA a, b : a = c /\ b = c)

FalsePos(t, q, c) == CountRows(t, q, LAMBDA a, b : a # c /\ b = c)

FalseNeg(t, q, c) == CountRows(t, q, LAMBDA a, b : a = c /\ b # c)

\* n / d, or 0 where sklearn's zero_division default applies
SafeFrac(n, d) == IF d = 0 THEN <<0, 1>> ELSE Frac(n, d)

Precision(t, q, c) == SafeFrac(TruePos(t, q, c),
                               TruePos(t, q, c) + FalsePos(t, q, c))

Recall(t, q, c) == SafeFrac(TruePos(t, q, c),
                            TruePos(t, q, c) + FalseNeg(t, q, c))

F1(t, q, c) == SafeFrac(2 * TruePos(t, q, c),
                        2 * TruePos(t, q, c) + FalsePos(t, q, c)
                        + FalseNeg(t, q, c))

RECURSIVE FracSum(_, _)
\* The sum of score[c] over the labels c
FracSum(labels, score) ==
    IF labels = {} THEN <<0, 1>>
    ELSE LET c == CHOOSE x \in labels : TRUE
         IN  FracAdd(score[c], FracSum(labels \ {c}, score))

\* average="macro": the unweighted mean of the per-label scores
Macro(score) ==
    FracMul(FracSum(DOMAIN score, score), <<1, Cardinality(DOMAIN score)>>)

\* balanced_accuracy_score: the mean recall over the labels y_true holds
BalancedAccuracy(t, q) ==
    Macro([c \in {t[i] : i \in DOMAIN t} |-> Recall(t, q, c)])

RegressionMetrics ==
    [Model |-> label, Combination |-> combination,
     L1 |-> L1Norm(y_true, y_pred),
     L2 |-> [sqrt_of |-> MeanSquare(y_true, y_pred)],
     R2 |-> RSquared(y_true, y_pred),
     OLF |-> OutlierFraction(y_true, y_pred),
     id |-> id]

ClassificationMetrics ==
    LET labels == LabelsOf(y_true_label, y_pred)
    IN  [Model |-> label, Combination |-> combination,
         mic_f1 |-> Accuracy(y_true_label, y_pred),
         mic_p |-> Accuracy(y_true_label, y_pred),
         mic_r |-> Accuracy(y_true_label, y_pred),
         mic_acc |-> Accuracy(y_true_label, y_pred),
         mac_f1 |-> Macro([c \in labels |-> F1(y_true_label, y_pred, c)]),
         mac_p |-> Macro([c \in labels |->
                             Precision(y_true_label, y_pred, c)]),
         mac_r |-> Macro([c \in labels |-> Recall(y_true_label, y_pred, c)]),
         mac_acc |-> BalancedAccuracy(y_true_label, y_pred),
         id |-> id]

\* results, built after the task branch
PredictionRecord ==
    [Model |-> label, Combination |-> combination, id |-> id,
     y_pred |-> y_pred, y_true |-> y_true, y_true_label |-> y_true_label,
     lc_data |-> lc_data]

\* The task string as the docstring and the error message give it, where
\* 'redshift' names the regression task
TaskBranchAsDocumented(t) ==
    IF t = "regression" \/ t = "redshift" THEN "regression"
    ELSE IF t = "classification" THEN "classification"
    ELSE "else"

\* The branch of "if task == ... elif task == ... else" the task string takes
TaskBranch(t) ==
    IF t = "regression" THEN "regression"
    ELSE IF t = "classification" THEN "classification"
    ELSE "else"

\* The exception the body of the task branch raises, or "none": torch
\* refuses to subtract tensors it cannot broadcast, sklearn refuses label
\* arrays of different lengths
BranchError(branch) ==
    IF branch = "regression"
    THEN IF Broadcastable(Len(y_true), Len(y_pred)) THEN "none"
         ELSE "RuntimeError"
    ELSE IF Len(y_true_label) = Len(y_pred) THEN "none" ELSE "ValueError"

InitCM ==
    /\ y_true \in Vectors(TrueValues)
    /\ y_true_label \in Vectors(ClassLabels)
    /\ y_pred \in Vectors(PredictedValues)
    /\ lc_data = None
    /\ label = "clip"
    /\ combination = "spectral"
    /\ id = 0
    /\ task \in Tasks
    /\ cm_pc = "idle"
    /\ cm_raised = "none"
    /\ metrics = NoRecord
    /\ results = NoRecord

calculate_metrics ==
    LET branch == TaskBranch(task)
    IN  /\ OnlyCM
        /\ cm_pc = "idle"
        /\ UNCHANGED <<y_true, y_true_label, y_pred, lc_data, label,
                       combination, id, task>>
        /\ IF branch = "else"
           THEN \* raise ValueError("Could not understand the task! ...")
                /\ cm_pc' = "raised"
                /\ cm_raised' = "ValueError: task"
                /\ UNCHANGED <<metrics, results>>
           ELSE IF BranchError(branch) # "none"
           THEN /\ cm_pc' = "raised"
                /\ cm_raised' = BranchError(branch)
                /\ UNCHANGED <<metrics, results>>
           ELSE /\ cm_pc' = "returned"
                /\ cm_raised' = "none"
                /\ metrics' = IF branch = "regression" THEN RegressionMetrics
                              ELSE ClassificationMetrics
                /\ results' = PredictionRecord

NextCM == calculate_metrics

-----------------------------------------------------------------------------
(* get_class_dependent_predictions *)

\* Bound on the number of Prediction Records handed in
MaxRows == 2

\* The class_names dicts tried, as their items in iteration order, the
\* colour of each class left out: one class, both classes in either order, a
\* class no example belongs to, and the empty dict
ClassNameDicts ==
    {<<[label |-> 0, name |-> "SN Ia"]>>,
     <<[label |-> 0, name |-> "SN Ia"], [label |-> 1, name |-> "SN II"]>>,
     <<[label |-> 1, name |-> "SN II"], [label |-> 0, name |-> "SN Ia"]>>,
     <<[label |-> 0, name |-> "SN Ia"], [label |-> 2, name |-> "SLSN"]>>,
     <<>>}

\* The Prediction Record of fold k with the given class labels: the true
\* value of example i is i and the prediction is one too high
FoldRecord(k, labels) ==
    [Model |-> "clip", Combination |-> "spectral", id |-> k,
     y_true |-> [i \in DOMAIN labels |-> i],
     y_pred |-> [i \in DOMAIN labels |-> i + 1],
     y_true_label |-> labels]

LabelVectors == UNION {[1..n -> ClassLabels] : n \in 0..MaxLen}

InputLists ==
    UNION {{[k \in 1..n |-> FoldRecord(k, f[k])] : f \in [1..n -> LabelVectors]}
           : n \in 0..MaxRows}

\* y_true_labels == label
Mask(labels, l) == [i \in DOMAIN labels |-> labels[i] = l]

RECURSIVE BoolIndexFrom(_, _, _)
BoolIndexFrom(v, mask, i) ==
    IF i > Len(v) THEN <<>>
    ELSE (IF mask[i] THEN <<v[i]>> ELSE <<>>) \o BoolIndexFrom(v, mask, i + 1)

\* v[mask]: the elements of v where the mask is True, in order
BoolIndex(v, mask) == BoolIndexFrom(v, mask, 1)

\* The guard of the inner loop, dropped
AnyPartition(p, t) == TRUE

\* len(y_pred_class) > 0 and len(y_true_class) > 0
HasMembers(p, t) == Len(p) > 0 /\ Len(t) > 0

\* The Metrics Record calculate_metrics(task="regression") returns for true
\* values t and predictions q of one row, tagged with the class name; the
\* means over no example at all are NaN
ClassMetrics(row, t, q, name) ==
    [Model |-> row.Model, Combination |-> row.Combination,
     L1 |-> IF Len(t) = 0 THEN NaN ELSE L1Norm(t, q),
     L2 |-> [sqrt_of |-> IF Len(t) = 0 THEN NaN ELSE MeanSquare(t, q)],
     R2 |-> IF Len(t) = 0 THEN NaN ELSE RSquared(t, q),
     OLF |-> IF Len(t) = 0 THEN NaN ELSE OutlierFraction(t, q),
     id |-> row.id,
     class |-> name]

InitGCDP ==
    /\ inputs \in InputLists
    /\ class_names \in ClassNameDicts
    /\ index = 1
    /\ class_pos = 1
    /\ class_results = <<>>
    /\ gcdp_pc = "loop"

\* One pass of the inner loop: the class at class_pos for the row at index
ProcessClass ==
    /\ OnlyGCDP
    /\ gcdp_pc = "loop"
    /\ index <= Len(inputs)
    /\ class_pos <= Len(class_names)
    /\ LET row          == inputs[index]
           item         == class_names[class_pos]
           mask         == Mask(row.y_true_label, item.label)
           y_pred_class == BoolIndex(row.y_pred, mask)
           y_true_class == BoolIndex(row.y_true, mask)
       IN  class_results' =
               IF HasMembers(y_pred_class, y_true_class)
               THEN Append(class_results,
                           ClassMetrics(row, y_true_class, y_pred_class,
                                        item.name))
               ELSE class_results
    /\ class_pos' = class_pos + 1
    /\ UNCHANGED <<inputs, class_names, index, gcdp_pc>>

\* The inner loop is through: df.iterrows() yields the next row
NextRow ==
    /\ OnlyGCDP
    /\ gcdp_pc = "loop"
    /\ index <= Len(inputs)
    /\ class_pos > Len(class_names)
    /\ index' = index + 1
    /\ class_pos' = 1
    /\ UNCHANGED <<inputs, class_names, class_results, gcdp_pc>>

\* return results
ReturnClassResults ==
    /\ OnlyGCDP
    /\ gcdp_pc = "loop"
    /\ index > Len(inputs)
    /\ gcdp_pc' = "returned"
    /\ UNCHANGED <<inputs, class_names, index, class_pos, class_results>>

NextGCDP == ProcessClass \/ NextRow \/ ReturnClassResults

-----------------------------------------------------------------------------
(* mergekfold_results *)

\* Bound on the number of Prediction Records handed in
MaxRecords == 3

\* The model labels tried, in the order Python compares strings
ModelLabels == <<"clip", "knn">>

\* The (Model, Combination, id) keys tried
GroupKeys == {<<"clip", "spectral", 0>>, <<"clip", "spectral", 1>>,
              <<"knn", "spectral", 0>>}

\* The position of a model label in the order of strings
StrRank(str) == CHOOSE r \in DOMAIN ModelLabels : ModelLabels[r] = str

\* a < b for two keys, as Python compares tuples; the combination is the
\* same in all keys
KeyLess(a, b) ==
    \/ StrRank(a[1]) < StrRank(b[1])
    \/ a[1] = b[1] /\ a[3] < b[3]

\* The Prediction Record at position k of the input: n examples whose
\* values tell the record and the example, with or without lc_data
KFoldRecord(k, key, n, has_lc) ==
    [Model |-> key[1], Combination |-> key[2], id |-> key[3],
     y_pred |-> [i \in 1..n |-> 100 * k + 10 * i + 1],
     y_true |-> [i \in 1..n |-> 100 * k + 10 * i + 2],
     y_true_label |-> [i \in 1..n |-> 100 * k + 10 * i + 3],
     lc_data |-> IF has_lc
                 THEN [x_lc |-> [i \in 1..n |-> 100 * k + 10 * i + 4],
                       t_lc |-> [i \in 1..n |-> 100 * k + 10 * i + 5],
                       mask_lc |-> [i \in 1..n |-> 100 * k + 10 * i + 6]]
                 ELSE NoRecord]

\* The numbers of examples a record holds
RecordLengths == {1, 2}

\* What the records differ in: the key, the length, whether lc_data is there
RecordShapes == GroupKeys \X RecordLengths \X BOOLEAN

\* The lists of n Prediction Records
ResultLists(n) ==
    {[k \in 1..n |-> KFoldRecord(k, f[k][1], f[k][2], f[k][3])] :
        f \in [1..n -> RecordShapes]}

KeyOf(rec) == <<rec.Model, rec.Combination, rec.id>>

RECURSIVE SortKeys(_)
\* The keys in ascending order
SortKeys(keys) ==
    IF keys = {} THEN <<>>
    ELSE LET least == CHOOSE a \in keys : \A b \in keys \ {a} : KeyLess(a, b)
         IN  <<least>> \o SortKeys(keys \ {least})

\* The keys in the order of their first appearance in the input
RECURSIVE KeysAsTheyAppear(_, _)
KeysAsTheyAppear(recs, seen) ==
    IF recs = <<>> THEN <<>>
    ELSE IF KeyOf(Head(recs)) \in seen
         THEN KeysAsTheyAppear(Tail(recs), seen)
         ELSE <<KeyOf(Head(recs))>>
              \o KeysAsTheyAppear(Tail(recs), seen \cup {KeyOf(Head(recs))})

\* df.groupby(...) with sort=False: the groups in order of first appearance
GroupedUnsorted(recs) == KeysAsTheyAppear(recs, {})

\* df.groupby(["Model", "Combination", "id"]): the group keys, sorted
Grouped(recs) == SortKeys({KeyOf(recs[k]) : k \in DOMAIN recs})

\* One record standing for its group: the first with the key
FirstOf(recs, key) ==
    <<recs[CHOOSE k \in DOMAIN recs :
              /\ KeyOf(recs[k]) = key
              /\ \A j \in 1..(k - 1) : KeyOf(recs[j]) # key]>>

\* The rows of one group, in the order of the input
GroupOf(recs, key) == SelectSeq(recs, LAMBDA rec : KeyOf(rec) = key)

RECURSIVE Concatenate(_)
\* np.concatenate of a sequence of arrays
Concatenate(arrays) ==
    IF arrays = <<>> THEN <<>>
    ELSE Head(arrays) \o Concatenate(Tail(arrays))

\* group["lc_data"].dropna().values
PresentLC(group) ==
    LET with_lc == SelectSeq(group, LAMBDA rec : rec.lc_data # NoRecord)
    IN  [k \in DOMAIN with_lc |-> with_lc[k].lc_data]

\* The lc_data of a group's row, were auxiliary data concatenated without
\* asking whether the group has any
LCConcatUnguarded(group) ==
    [key \in {"x_lc", "t_lc", "mask_lc"} |->
        Concatenate([k \in DOMAIN PresentLC(group) |-> PresentLC(group)[k][key]])]

\* lc_data_concat: the arrays of the records that have lc_data, key by key,
\* or None if group["lc_data"].notna().any() is False
LCConcat(group) ==
    IF PresentLC(group) # <<>>
    THEN [key \in DOMAIN PresentLC(group)[1] |->
             Concatenate([k \in DOMAIN PresentLC(group) |->
                             PresentLC(group)[k][key]])]
    ELSE NoRecord

Column(group, field) == [k \in DOMAIN group |-> group[k][field]]

\* The row appended to concatenated_results for one group
MergedRow(key, group) ==
    [Model |-> key[1], Combination |-> key[2], id |-> key[3],
     y_pred |-> Concatenate(Column(group, "y_pred")),
     y_true |-> Concatenate(Column(group, "y_true")),
     y_true_label |-> Concatenate(Column(group, "y_true_label")),
     lc_data |-> LCConcat(group)]

InitMerge ==
    /\ \E n \in 0..MaxRecords : fold_results \in ResultLists(n)
    /\ group_pos = 1
    /\ concatenated_results = <<>>
    /\ merge_pc = "idle"
    /\ merge_raised = "none"

\* df = pd.DataFrame(results); grouped = df.groupby([...]): a frame built
\* from no record has no column to group by
GroupByKey ==
    /\ OnlyMerge
    /\ merge_pc = "idle"
    /\ IF fold_results = <<>>
       THEN merge_pc' = "raised" /\ merge_raised' = "KeyError"
       ELSE merge_pc' = "loop" /\ merge_raised' = "none"
    /\ UNCHANGED <<fold_results, group_pos, concatenated_results>>

\* One pass of the loop over grouped
MergeGroup ==
    /\ OnlyMerge
    /\ merge_pc = "loop"
    /\ group_pos <= Len(Grouped(fold_results))
    /\ LET key == Grouped(fold_results)[group_pos]
       IN  concatenated_results' =
               Append(concatenated_results,
                      MergedRow(key, GroupOf(fold_results, key)))
    /\ group_pos' = group_pos + 1
    /\ UNCHANGED <<fold_results, merge_pc, merge_raised>>

\* return pd.DataFrame(concatenated_results)
ReturnMerged ==
    /\ OnlyMerge
    /\ merge_pc = "loop"
    /\ group_pos > Len(Grouped(fold_results))
    /\ merge_pc' = "returned"
    /\ UNCHANGED <<fold_results, group_pos, concatenated_results,
                   merge_raised>>

NextMerge == GroupByKey \/ MergeGroup \/ ReturnMerged

-----------------------------------------------------------------------------
(* get_linear_predictions and get_knn_predictions *)

\* A tensor handed in for an Optional parameter; None is NoRecord
Tensor(v) == [data |-> v]

\* The values of the one feature of an example
FeatureValues == {0, 2}

\* The targets: a value for regression, a class for classification
TargetValues == {0, 1}

Predictors == {"get_linear_predictions", "get_knn_predictions"}

\* The values of k tried, the default among them
NeighborCounts == {1, 2, 5}

\* The task strings the two branches compare with
RegressionStr == <<"r", "e", "g", "r", "e", "s", "s", "i", "o", "n">>

ClassificationStr ==
    <<"c", "l", "a", "s", "s", "i", "f", "i", "c", "a", "t", "i", "o", "n">>

\* The task strings tried
TaskStrings ==
    {RegressionStr, ClassificationStr,
     <<"R", "e", "g", "r", "e", "s", "s", "i", "o", "n">>,
     <<"C", "L", "A", "S", "S", "I", "F", "I", "C", "A", "T", "I", "O", "N">>,
     <<"r", "e", "d", "s", "h", "i", "f", "t">>}

UpperCase ==
    <<"A", "B", "C", "D", "E", "F", "G", "H", "I", "J", "K", "L", "M",
      "N", "O", "P", "Q", "R", "S", "T", "U", "V", "W", "X", "Y", "Z">>

LowerCase ==
    <<"a", "b", "c", "d", "e", "f", "g", "h", "i", "j", "k", "l", "m",
      "n", "o", "p", "q", "r", "s", "t", "u", "v", "w", "x", "y", "z">>

LowerChar(c) ==
    IF \E i \in DOMAIN UpperCase : UpperCase[i] = c
    THEN LowerCase[CHOOSE i \in DOMAIN UpperCase : UpperCase[i] = c]
    ELSE c

\* The task string compared as it was given
AsGiven(str) == str

\* str.lower()
Lower(str) == [i \in DOMAIN str |-> LowerChar(str[i])]

\* The estimator the task string selects, or "invalid"
Estimator(fn, str) ==
    IF Lower(str) = RegressionStr
    THEN IF fn = "get_linear_predictions" THEN "LinearRegression"
         ELSE "KNeighborsRegressor"
    ELSE IF Lower(str) = ClassificationStr
    THEN IF fn = "get_linear_predictions" THEN "LinearSVC"
         ELSE "KNeighborsClassifier"
    ELSE "invalid"

RECURSIVE SumAt(_, _)
\* The sum of f over the positions
SumAt(f, positions) ==
    IF positions = {} THEN 0
    ELSE LET i == CHOOSE x \in positions : TRUE
         IN  f[i] + SumAt(f, positions \ {i})

\* LinearRegression fitted on (xs, ys), at x: the least-squares line with
\* intercept, the slope being 0 where the feature does not vary
LeastSquares(xs, ys, x) ==
    LET n   == Len(xs)
        sx  == SumAt(xs, DOMAIN xs)
        sy  == SumAt(ys, DOMAIN ys)
        sxy == SumAt([i \in DOMAIN xs |-> xs[i] * ys[i]], DOMAIN xs)
        sxx == SumAt([i \in DOMAIN xs |-> xs[i] * xs[i]], DOMAIN xs)
        den == n * sxx - sx * sx
        num == n * sxy - sx * sy
    IN  IF den = 0 THEN Frac(sy, n)
        ELSE Frac(sy * den + num * (n * x - sx), n * den)

\* The sets of k training examples that can be the k nearest to x: a tie in
\* the distance is broken either way
NearestSets(xs, x, kk) ==
    {S \in SUBSET DOMAIN xs :
        /\ Cardinality(S) = kk
        /\ \A i \in S : \A j \in (DOMAIN xs) \ S :
               Abs(xs[i] - x) <= Abs(xs[j] - x)}

\* The most frequent class among the neighbours, the smallest on a tie
Mode(ys, S) ==
    LET votes(c) == Cardinality({i \in S : ys[i] = c})
    IN  CHOOSE c \in {ys[i] : i \in S} :
            \A d \in {ys[i] : i \in S} :
                votes(c) > votes(d) \/ (votes(c) = votes(d) /\ c <= d)

\* What model.predict can yield for one example with feature x.  The
\* decision of the LinearSVC solver is not modelled: any class it was
\* fitted on
PredictOne(m, x) ==
    IF m.estimator = "LinearRegression" THEN {LeastSquares(m.X, m.Y, x)}
    ELSE IF m.estimator = "LinearSVC" THEN {Item(m.Y[i]) : i \in DOMAIN m.Y}
    ELSE IF m.estimator = "KNeighborsRegressor"
    THEN {Frac(SumAt(m.Y, S), m.n_neighbors) :
             S \in NearestSets(m.X, x, m.n_neighbors)}
    ELSE {Item(Mode(m.Y, S)) : S \in NearestSets(m.X, x, m.n_neighbors)}

\* model.predict(rows), flattened: one prediction per row
Predict(m, rows) ==
    {q \in [DOMAIN rows -> UNION {PredictOne(m, rows[i]) : i \in DOMAIN rows}] :
        \A i \in DOMAIN rows : q[i] \in PredictOne(m, rows[i])}

\* The rows predicted on: X_val if X_val is not None and Y_val is not None,
\* else X
PredictOn == IF X_val # NoRecord /\ Y_val # NoRecord THEN X_val.data ELSE X

InitPred ==
    /\ predictor \in Predictors
    /\ X \in Vectors(FeatureValues)
    /\ Y \in {v \in Vectors(TargetValues) : Len(v) = Len(X)}
    /\ X_val \in {NoRecord} \cup {Tensor(v) : v \in Vectors(FeatureValues)}
    /\ Y_val \in {NoRecord,
                  Tensor([i \in 1..(IF X_val = NoRecord THEN 1
                                    ELSE Len(X_val.data)) |-> 0])}
    /\ n_neighbors \in IF predictor = "get_knn_predictions"
                       THEN NeighborCounts ELSE {5}
    /\ pred_task \in TaskStrings
    /\ model = NoRecord
    /\ predictions = NoRecord
    /\ pred_pc = "idle"
    /\ pred_raised = "none"

\* "fit the model": the branch on task.lower() and .fit(X, Y); LinearSVC
\* refuses targets of a single class
Fit ==
    /\ OnlyPred
    /\ pred_pc = "idle"
    /\ LET estimator == Estimator(predictor, pred_task)
       IN  IF estimator = "invalid"
           THEN /\ pred_pc' = "raised"
                /\ pred_raised' = "ValueError: Invalid task"
                /\ model' = model
           ELSE IF estimator = "LinearSVC"
                   /\ Cardinality({Y[i] : i \in DOMAIN Y}) < 2
           THEN /\ pred_pc' = "raised"
                /\ pred_raised' = "ValueError: one class"
                /\ model' = model
           ELSE /\ pred_pc' = "fitted"
                /\ pred_raised' = "none"
                /\ model' = [estimator |-> estimator, X |-> X, Y |-> Y,
                             n_neighbors |-> n_neighbors]
    /\ UNCHANGED <<predictor, X, Y, X_val, Y_val, n_neighbors, pred_task,
                   predictions>>

\* model.predict(...) on the validation or the training features, and the
\* flattened tensor returned; the neighbours estimators refuse a k above the
\* number of examples they were fitted on
PredictAndReturn ==
    /\ OnlyPred
    /\ pred_pc = "fitted"
    /\ IF /\ model.estimator \in {"KNeighborsRegressor", "KNeighborsClassifier"}
          /\ model.n_neighbors > Len(model.X)
       THEN /\ pred_pc' = "raised"
            /\ pred_raised' = "ValueError: n_neighbors"
            /\ predictions' = predictions
       ELSE /\ pred_pc' = "returned"
            /\ pred_raised' = "none"
            /\ \E q \in Predict(model, PredictOn) : predictions' = Tensor(q)
    /\ UNCHANGED <<predictor, X, Y, X_val, Y_val, n_neighbors, pred_task,
                   model>>

NextPred == Fit \/ PredictAndReturn

-----------------------------------------------------------------------------
(* get_embs *)

\* Bound on the number of batches the dataloader yields
MaxBatches == 2

\* combs_all: the modalities in the fixed order of the encoders
combs_all == <<"host_galaxy", "lightcurve", "spectral", "meta">>

\* The lists of modality names tried: none, one, two in and against the
\* fixed order, all four, a repeated name, and a name no encoder has
CombinationLists ==
    {<<>>,
     <<"spectral">>,
     <<"host_galaxy", "lightcurve">>,
     <<"meta", "host_galaxy">>,
     <<"host_galaxy", "lightcurve", "spectral", "meta">>,
     <<"spectral", "spectral">>,
     <<"spectral", "photometry">>}

\* The batch sizes of a dataloader, batch by batch
BatchSizes == UNION {[1..n -> 1..MaxLen] : n \in 0..MaxBatches}

RECURSIVE SizeSum(_, _)
\* The number of examples in the first n batches
SizeSum(sizes, n) == IF n = 0 THEN 0 ELSE sizes[n] + SizeSum(sizes, n - 1)

\* The dataloader of the given batch sizes: the examples are numbered in the
\* order they are yielded
Batches(sizes) ==
    [b \in DOMAIN sizes |->
        [i \in 1..sizes[b] |-> SizeSum(sizes, b - 1) + i]]

\* Row of the embedding an encoder of the model computes for one example
Embed(modality, example) == [modality |-> modality, example |-> example]

\* An encoder applied to a batch: one row per example, in batch order
EmbedBatch(modality, batch) ==
    [i \in DOMAIN batch |-> Embed(modality, batch[i])]

\* Every modality passes the test
InAnyCombination(modality) == TRUE

\* modality in combinations
InCombinations(modality) ==
    \E i \in DOMAIN combinations : combinations[i] = modality

\* The names in the order they were asked for
combs_as_requested == combinations

\* combs: np.array(combs_all)[np.isin(combs_all, combinations)]
combs == SelectSeq(combs_all, InCombinations)

\* x: the embeddings of one batch, one entry per "if ... in combinations"
BatchEmbeddings(batch) ==
    LET computed == SelectSeq(combs_all, InCombinations)
    IN  [i \in DOMAIN computed |-> EmbedBatch(computed[i], batch)]

InitEmbs ==
    /\ combinations \in CombinationLists
    /\ ret_combs \in BOOLEAN
    /\ dataloader \in {Batches(sizes) : sizes \in BatchSizes}
    /\ batch_pos = 1
    /\ embs_list = [i \in DOMAIN combinations |-> <<>>]
    /\ encoder_calls = <<>>
    /\ embs_returned = NoRecord
    /\ embs_pc = "loop"
    /\ embs_raised = "none"

\* One pass of "for batch in dataloader": the encoders asked for run, and
\* entry i of x is appended to slot i of embs_list
ProcessBatch ==
    /\ OnlyEmbs
    /\ embs_pc = "loop"
    /\ batch_pos <= Len(dataloader)
    /\ LET x == BatchEmbeddings(dataloader[batch_pos])
       IN  /\ encoder_calls' =
                  encoder_calls
                  \o [i \in DOMAIN x |-> <<x[i][1].modality, batch_pos>>]
           /\ embs_list' =
                  [i \in DOMAIN embs_list |->
                      IF i <= Len(x) THEN Append(embs_list[i], x[i])
                      ELSE embs_list[i]]
    /\ batch_pos' = batch_pos + 1
    /\ UNCHANGED <<combinations, ret_combs, dataloader, embs_returned,
                   embs_pc, embs_raised>>

\* After the loop: torch.cat of every slot, which refuses a slot nothing
\* was appended to, and the return
ConcatAndReturn ==
    /\ OnlyEmbs
    /\ embs_pc = "loop"
    /\ batch_pos > Len(dataloader)
    /\ IF \E i \in DOMAIN embs_list : embs_list[i] = <<>>
       THEN /\ embs_pc' = "raised"
            /\ embs_raised' = "RuntimeError"
            /\ embs_returned' = embs_returned
       ELSE /\ embs_pc' = "returned"
            /\ embs_raised' = "none"
            /\ embs_returned' =
                   [embs |-> [i \in DOMAIN embs_list |->
                                 Concatenate(embs_list[i])],
                    combs |-> IF ret_combs THEN combs ELSE <<>>]
    /\ UNCHANGED <<combinations, ret_combs, dataloader, batch_pos, embs_list,
                   encoder_calls>>

NextEmbs == ProcessBatch \/ ConcatAndReturn

-----------------------------------------------------------------------------
(* filter_classes *)

\* Bound on the number of examples
MaxExamples == 3

\* The class labels of the data set
DatasetLabels == {0, 1, 2}

\* The label vectors tried
LabelLists == UNION {[1..n -> DatasetLabels] : n \in 0..MaxExamples}

\* The target_classes tried: every list of labels, repeated ones included
TargetLists ==
    UNION {[1..n -> DatasetLabels] : n \in 0..Cardinality(DatasetLabels)}

\* What an entry of torch.empty_like holds before it is assigned
Uninitialized == {0, 7}

\* The feature matrices of n examples: row i of matrix m tells m and i
FeatureMatrices(n) == <<[i \in 1..n |-> 10 + i], [i \in 1..n |-> 20 + i]>>

\* The lc_data of n examples
LightCurves(n) ==
    [x_lc |-> [i \in 1..n |-> 30 + i], t_lc |-> [i \in 1..n |-> 40 + i]]

\* The mask that keeps every example
KeepAll(labels, targets) == [i \in DOMAIN labels |-> TRUE]

\* (y_flat == target_classes[:, None]).any(dim=0)
TargetMask(labels, targets) ==
    [i \in DOMAIN labels |->
        \E j \in DOMAIN targets : labels[i] = targets[j]]

\* The assignment of the loop, were it to compare with the labels as
\* remapped so far
RemapInPlace(remapped, original, class_val, i) ==
    [r \in DOMAIN remapped |->
        IF remapped[r] = class_val THEN i ELSE remapped[r]]

\* remapped_y[filtered_y == class_val] = i
RemapStep(remapped, original, class_val, i) ==
    [r \in DOMAIN remapped |->
        IF original[r] = class_val THEN i ELSE remapped[r]]

InitFC ==
    /\ y_labels \in LabelLists
    /\ X_list = FeatureMatrices(Len(y_labels))
    /\ fc_lc_data \in {NoRecord, LightCurves(Len(y_labels))}
    /\ target_classes \in TargetLists
    /\ filtered_X_list = <<>>
    /\ filtered_lc_data = NoRecord
    /\ filtered_y = <<>>
    /\ remapped_y = <<>>
    /\ remap_pos = 1
    /\ fc_pc = "start"

\* The mask, the filtering of X_list, lc_data and y, and torch.empty_like,
\* whose entries hold whatever the memory held
FilterByMask ==
    /\ OnlyFC
    /\ fc_pc = "start"
    /\ LET mask == TargetMask(y_labels, target_classes)
       IN  /\ filtered_X_list' =
                  [m \in DOMAIN X_list |-> BoolIndex(X_list[m], mask)]
           /\ filtered_lc_data' =
                  IF fc_lc_data # NoRecord
                  THEN [key \in DOMAIN fc_lc_data |->
                           BoolIndex(fc_lc_data[key], mask)]
                  ELSE NoRecord
           /\ filtered_y' = BoolIndex(y_labels, mask)
           /\ remapped_y' \in
                  [DOMAIN BoolIndex(y_labels, mask) -> Uninitialized]
    /\ fc_pc' = "remap"
    /\ UNCHANGED <<X_list, y_labels, fc_lc_data, target_classes, remap_pos>>

\* One pass of "for i, class_val in enumerate(target_classes)"
RemapClass ==
    /\ OnlyFC
    /\ fc_pc = "remap"
    /\ remap_pos <= Len(target_classes)
    /\ remapped_y' = RemapStep(remapped_y, filtered_y,
                               target_classes[remap_pos], remap_pos - 1)
    /\ remap_pos' = remap_pos + 1
    /\ UNCHANGED <<X_list, y_labels, fc_lc_data, target_classes,
                   filtered_X_list, filtered_lc_data, filtered_y, fc_pc>>

\* return filtered_X_list, remapped_y, filtered_lc_data
ReturnFiltered ==
    /\ OnlyFC
    /\ fc_pc = "remap"
    /\ remap_pos > Len(target_classes)
    /\ fc_pc' = "returned"
    /\ UNCHANGED <<X_list, y_labels, fc_lc_data, target_classes,
                   filtered_X_list, filtered_lc_data, filtered_y, remapped_y,
                   remap_pos>>

NextFC == FilterByMask \/ RemapClass \/ ReturnFiltered

-----------------------------------------------------------------------------
(* get_checkpoint_paths *)

\* Bound on the number of files of a directory
MaxFiles == 2

\* The directories os.walk visits
DirPaths == <<"sweeps/a", "sweeps/b">>

\* The filenames tried, character by character: epoch=3-step=9.ckpt,
\* epoch=12-step=9.ckpt, epoch=3-v2.ckpt, last.ckpt,
\* epoch=best-step=9.ckpt and epoch=1-step=9.txt
Filenames ==
    {<<"e", "p", "o", "c", "h", "=", "3", "-", "s", "t", "e", "p", "=",
       "9", ".", "c", "k", "p", "t">>,
     <<"e", "p", "o", "c", "h", "=", "1", "2", "-", "s", "t", "e", "p",
       "=", "9", ".", "c", "k", "p", "t">>,
     <<"e", "p", "o", "c", "h", "=", "3", "-", "v", "2", ".", "c", "k",
       "p", "t">>,
     <<"l", "a", "s", "t", ".", "c", "k", "p", "t">>,
     <<"e", "p", "o", "c", "h", "=", "b", "e", "s", "t", "-", "s", "t",
       "e", "p", "=", "9", ".", "c", "k", "p", "t">>,
     <<"e", "p", "o", "c", "h", "=", "1", "-", "s", "t", "e", "p", "=",
       "9", ".", "t", "x", "t">>}

\* The listings of a directory: its files in the order os.walk gives them
Listings ==
    UNION {{f \in [1..n -> Filenames] : \A i, j \in 1..n : f[i] = f[j] => i = j}
           : n \in 0..MaxFiles}

Digits == <<"0", "1", "2", "3", "4", "5", "6", "7", "8", "9">>

\* filename.endswith(suffix)
EndsWith(str, suffix) ==
    /\ Len(str) >= Len(suffix)
    /\ SubSeq(str, Len(str) - Len(suffix) + 1, Len(str)) = suffix

\* The positions of the separator in the string
Occurrences(str, sep) == {i \in DOMAIN str : str[i] = sep}

\* The least position of a set of positions, or the given one if none
LeastOr(positions, otherwise) ==
    IF positions = {} THEN otherwise
    ELSE CHOOSE i \in positions : \A j \in positions : i <= j

\* str.split(sep)[0]
FirstPiece(str, sep) ==
    SubSeq(str, 1, LeastOr(Occurrences(str, sep), Len(str) + 1) - 1)

\* str.split(sep)[1], for a string the separator occurs in
SecondPiece(str, sep) ==
    LET first == LeastOr(Occurrences(str, sep), 0)
    IN  FirstPiece(SubSeq(str, first + 1, Len(str)), sep)

RECURSIVE DecimalValue(_)
\* The number a string of digits denotes
DecimalValue(str) ==
    IF str = <<>> THEN 0
    ELSE 10 * DecimalValue(SubSeq(str, 1, Len(str) - 1))
         + (CHOOSE d \in DOMAIN Digits : Digits[d] = str[Len(str)]) - 1

\* int(filename.split("=")[1].split("-")[0]): the epoch, or the exception
ParseEpoch(filename) ==
    IF Occurrences(filename, "=") = {} THEN [error |-> "IndexError"]
    ELSE LET piece == FirstPiece(SecondPiece(filename, "="), "-")
         IN  IF /\ piece # <<>>
                /\ \A i \in DOMAIN piece :
                       \E d \in DOMAIN Digits : Digits[d] = piece[i]
             THEN [epoch |-> DecimalValue(piece)]
             ELSE [error |-> "ValueError"]

\* The update made for every file whose epoch parses
AnyEpoch(epoch, smallest) == TRUE

\* epoch < smallest_epoch, where smallest_epoch starts as float("inf")
IsSmaller(epoch, smallest) == smallest = PosInf \/ epoch < smallest[1]

InitCkpt ==
    /\ walk \in {[d \in DOMAIN DirPaths |->
                     [dirpath |-> DirPaths[d], filenames |-> f[d]]] :
                    f \in [DOMAIN DirPaths -> Listings]}
    /\ dir_pos = 1
    /\ file_pos = 1
    /\ smallest_epoch = PosInf
    /\ path_of_smallest = NoRecord
    /\ ckpt_paths = <<>>
    /\ ckpt_returned = NoRecord
    /\ ckpt_pc = "scan"

\* One pass of "for filename in filenames"
ScanFile ==
    /\ OnlyCkpt
    /\ ckpt_pc = "scan"
    /\ dir_pos <= Len(walk)
    /\ file_pos <= Len(walk[dir_pos].filenames)
    /\ LET filename == walk[dir_pos].filenames[file_pos]
           parsed   == ParseEpoch(filename)
       IN  IF /\ EndsWith(filename, <<".", "c", "k", "p", "t">>)
              /\ "epoch" \in DOMAIN parsed
              /\ IsSmaller(parsed.epoch, smallest_epoch)
           THEN /\ smallest_epoch' = Item(parsed.epoch)
                /\ path_of_smallest' =
                       [dirpath |-> walk[dir_pos].dirpath,
                        filename |-> filename]
           ELSE UNCHANGED <<smallest_epoch, path_of_smallest>>
    /\ file_pos' = file_pos + 1
    /\ UNCHANGED <<walk, dir_pos, ckpt_paths, ckpt_returned, ckpt_pc>>

\* The end of a directory: its path is stored if there is one, and os.walk
\* yields the next directory
StorePath ==
    /\ OnlyCkpt
    /\ ckpt_pc = "scan"
    /\ dir_pos <= Len(walk)
    /\ file_pos > Len(walk[dir_pos].filenames)
    /\ ckpt_paths' = IF path_of_smallest # NoRecord
                     THEN Append(ckpt_paths, path_of_smallest)
                     ELSE ckpt_paths
    /\ dir_pos' = dir_pos + 1
    /\ file_pos' = 1
    /\ smallest_epoch' = PosInf
    /\ path_of_smallest' = NoRecord
    /\ UNCHANGED <<walk, ckpt_returned, ckpt_pc>>

\* return ckpt_paths, [name] * len(ckpt_paths), [id] * len(ckpt_paths)
ReturnPaths ==
    /\ OnlyCkpt
    /\ ckpt_pc = "scan"
    /\ dir_pos > Len(walk)
    /\ ckpt_returned' =
           [paths |-> ckpt_paths,
            names |-> [i \in DOMAIN ckpt_paths |-> "clip"],
            ids |-> [i \in DOMAIN ckpt_paths |-> 0]]
    /\ ckpt_pc' = "returned"
    /\ UNCHANGED <<walk, dir_pos, file_pos, smallest_epoch, path_of_smallest,
                   ckpt_paths>>

NextCkpt == ScanFile \/ StorePath \/ ReturnPaths

-----------------------------------------------------------------------------
(* plot_ROC_curves *)

\* The four modality names in the order sorted() puts strings
SortedNames == <<"host_galaxy", "lightcurve", "meta", "spectral">>

\* The lists of modality names tried: every list without a repeated name
ModalityLists ==
    UNION {{f \in [1..n -> {combs_all[i] : i \in DOMAIN combs_all}] :
               \A i, j \in 1..n : f[i] = f[j] => i = j}
           : n \in 0..Len(combs_all)}

\* The names of a list in the order of a reference list
InOrderOf(reference, list) ==
    SelectSeq(reference, LAMBDA name : \E i \in DOMAIN list : list[i] = name)

\* What get_embs returns for the combinations: one tensor per modality asked
\* for, in the order of combs_all
EmbsFor(list) ==
    [i \in DOMAIN InOrderOf(combs_all, list) |->
        [modality |-> InOrderOf(combs_all, list)[i]]]

\* combinations = sorted(combinations)
Sorted(list) == InOrderOf(SortedNames, list)

InitPlot ==
    /\ plot_combinations \in ModalityLists
    /\ embs_train = EmbsFor(plot_combinations)
    /\ pair_i = 1
    /\ pair_j = 2
    /\ curve_labels = <<>>
    /\ plot_pc = "loop"

\* One pass of the inner loop: the curve of embs_train[i] and embs_train[j]
\* and its label f"{combinations[i]} and {combinations[j]}"
AppendCurve ==
    /\ OnlyPlot
    /\ plot_pc = "loop"
    /\ pair_i <= Len(embs_train) - 1
    /\ pair_j <= Len(embs_train)
    /\ curve_labels' = Append(curve_labels,
                        [label |-> <<Sorted(plot_combinations)[pair_i],
                                     Sorted(plot_combinations)[pair_j]>>,
                         tensors |-> <<embs_train[pair_i].modality,
                                       embs_train[pair_j].modality>>])
    /\ IF pair_j < Len(embs_train)
       THEN pair_j' = pair_j + 1 /\ pair_i' = pair_i
       ELSE pair_i' = pair_i + 1 /\ pair_j' = pair_i + 2
    /\ UNCHANGED <<plot_combinations, embs_train, plot_pc>>

\* The loops are through: the curves are plotted under their labels; with no
\* pair of tensors, thresholds was never bound and plotting raises
PlotCurves ==
    /\ OnlyPlot
    /\ plot_pc = "loop"
    /\ pair_i > Len(embs_train) - 1
    /\ plot_pc' = IF curve_labels = <<>> THEN "NameError" ELSE "plotted"
    /\ UNCHANGED <<plot_combinations, embs_train, pair_i, pair_j,
                 curve_labels>>

NextPlot == AppendCurve \/ PlotCurves

-----------------------------------------------------------------------------
(* Specifications *)

\* plot_ROC_curves is not running
IdlePlot ==
    /\ plot_combinations = <<>>
    /\ embs_train = <<>>
    /\ pair_i = 1
    /\ pair_j = 2
    /\ curve_labels = <<>>
    /\ plot_pc = "plotted"

\* get_checkpoint_paths is not running
IdleCkpt ==
    /\ walk = <<>>
    /\ dir_pos = 1
    /\ file_pos = 1
    /\ smallest_epoch = PosInf
    /\ path_of_smallest = NoRecord
    /\ ckpt_paths = <<>>
    /\ ckpt_returned = NoRecord
    /\ ckpt_pc = "returned"

\* filter_classes is not running
IdleFC ==
    /\ X_list = <<>>
    /\ y_labels = <<>>
    /\ fc_lc_data = NoRecord
    /\ target_classes = <<>>
    /\ filtered_X_list = <<>>
    /\ filtered_lc_data = NoRecord
    /\ filtered_y = <<>>
    /\ remapped_y = <<>>
    /\ remap_pos = 1
    /\ fc_pc = "returned"

\* get_embs is not running
IdleEmbs ==
    /\ combinations = <<>>
    /\ ret_combs = FALSE
    /\ dataloader = <<>>
    /\ batch_pos = 1
    /\ embs_list = <<>>
    /\ encoder_calls = <<>>
    /\ embs_returned = NoRecord
    /\ embs_pc = "returned"
    /\ embs_raised = "none"

\* Neither baseline predictor is running
IdlePred ==
    /\ predictor = "none"
    /\ X = <<>>
    /\ Y = <<>>
    /\ X_val = NoRecord
    /\ Y_val = NoRecord
    /\ n_neighbors = 5
    /\ pred_task = <<>>
    /\ model = NoRecord
    /\ predictions = NoRecord
    /\ pred_pc = "idle"
    /\ pred_raised = "none"

\* mergekfold_results is not running
IdleMerge ==
    /\ fold_results = <<>>
    /\ group_pos = 1
    /\ concatenated_results = <<>>
    /\ merge_pc = "idle"
    /\ merge_raised = "none"

\* get_class_dependent_predictions is not running
IdleGCDP ==
    /\ inputs = <<>>
    /\ class_names = <<>>
    /\ index = 1
    /\ class_pos = 1
    /\ class_results = <<>>
    /\ gcdp_pc = "returned"

IdleRest ==
    IdleGCDP /\ IdleMerge /\ IdlePred /\ IdleEmbs /\ IdleFC /\ IdleCkpt
    /\ IdlePlot

\* The retrieval evaluator is not running
\* calculate_metrics is not running
IdleCM ==
    /\ y_true = <<>>
    /\ y_true_label = <<>>
    /\ y_pred = <<>>
    /\ lc_data = None
    /\ label = ""
    /\ combination = ""
    /\ id = 0
    /\ task = ""
    /\ cm_pc = "idle"
    /\ cm_raised = "none"
    /\ metrics = NoRecord
    /\ results = NoRecord

IdleROC ==
    /\ embs1 = <<>>
    /\ embs2 = <<>>
    /\ roc_pc = "idle"
    /\ roc_fn = "none"
    /\ imgs = <<>>
    /\ fraction_correct = NoCurve
    /\ auc = None

Init == InitLTC /\ IdleROC /\ IdleCM /\ IdleRest

Next == NextLTC

\* The training monitor under any order of the trainer's callbacks
Spec == Init /\ [][Next]_vars

InitGetROC == InitLTC /\ InitROC /\ IdleCM /\ IdleRest

\* One call of get_ROC_data or get_AUC on any two embedding sets
SpecROC == InitGetROC /\ [][NextROC]_vars

InitTrapz == InitLTC /\ InitIntegrate /\ IdleCM /\ IdleRest

\* The integration step of get_AUC on any curve of the family
SpecTrapz == InitTrapz /\ [][Integrate]_vars

InitMetrics == InitLTC /\ IdleROC /\ InitCM /\ IdleRest

\* One call of calculate_metrics on any input vectors and task string
SpecMetrics == InitMetrics /\ [][NextCM]_vars

InitClasses ==
    InitLTC /\ IdleROC /\ IdleCM /\ InitGCDP /\ IdleMerge /\ IdlePred /\ IdleEmbs
    /\ IdleFC /\ IdleCkpt /\ IdlePlot

\* One call of get_class_dependent_predictions on any list of records
SpecClasses == InitClasses /\ [][NextGCDP]_vars

InitKFold ==
    InitLTC /\ IdleROC /\ IdleCM /\ IdleGCDP /\ InitMerge /\ IdlePred /\ IdleEmbs
    /\ IdleFC /\ IdleCkpt /\ IdlePlot

\* One call of mergekfold_results on any list of Prediction Records
SpecMerge == InitKFold /\ [][NextMerge]_vars

InitBaseline ==
    InitLTC /\ IdleROC /\ IdleCM /\ IdleGCDP /\ IdleMerge /\ InitPred /\ IdleEmbs
    /\ IdleFC /\ IdleCkpt /\ IdlePlot

\* One call of get_linear_predictions or get_knn_predictions
SpecBaseline == InitBaseline /\ [][NextPred]_vars

InitExtract ==
    InitLTC /\ IdleROC /\ IdleCM /\ IdleGCDP /\ IdleMerge /\ IdlePred /\ InitEmbs
    /\ IdleFC /\ IdleCkpt /\ IdlePlot

\* One call of get_embs on any dataloader and list of modalities
SpecEmbs == InitExtract /\ [][NextEmbs]_vars

InitFilter ==
    InitLTC /\ IdleROC /\ IdleCM /\ IdleGCDP /\ IdleMerge /\ IdlePred /\ IdleEmbs
    /\ InitFC /\ IdleCkpt /\ IdlePlot

\* One call of filter_classes on any label vector and target classes
SpecFilter == InitFilter /\ [][NextFC]_vars

InitScan ==
    InitLTC /\ IdleROC /\ IdleCM /\ IdleGCDP /\ IdleMerge /\ IdlePred /\ IdleEmbs
    /\ IdleFC /\ InitCkpt /\ IdlePlot

\* One call of get_checkpoint_paths on any two directories of files
SpecCkpt == InitScan /\ [][NextCkpt]_vars

InitCurves ==
    InitLTC /\ IdleROC /\ IdleCM /\ IdleGCDP /\ IdleMerge /\ IdlePred /\ IdleEmbs
    /\ IdleFC /\ IdleCkpt /\ InitPlot

\* One call of plot_ROC_curves on the tensors of get_embs
SpecPlot == InitCurves /\ [][NextPlot]_vars

-----------------------------------------------------------------------------
(* Properties of LossTrackingCallback, checked under Spec *)

Called(name) == calls'[name] = calls[name] + 1

IsPrefix(s, t) == Len(s) <= Len(t) /\ SubSeq(t, 1, Len(s)) = s

\* C1: every on_train_epoch_end appends to train_loss_history the mean of the
\* step losses accumulated since the previous on_train_epoch_end (or since
\* construction) and leaves the accumulator empty.
C1_EpochEndAppendsMean ==
    [][Called("on_train_epoch_end") =>
          /\ Len(train_loss_history') = Len(train_loss_history) + 1
          /\ epoch_train_loss # <<>> =>
                 train_loss_history' =
                     Append(train_loss_history,
                            Frac(SumSeq(epoch_train_loss),
                                 Len(epoch_train_loss)))
          /\ epoch_train_loss' = <<>>]_vars

\* What holds of on_train_epoch_end instead: with step losses accumulated it
\* appends their mean and empties the accumulator; with none it raises and
\* stores nothing.
EpochEndMeanOrRaise ==
    [][Called("on_train_epoch_end") =>
          IF epoch_train_loss # <<>>
          THEN /\ train_loss_history' =
                      Append(train_loss_history,
                             Frac(SumSeq(epoch_train_loss),
                                  Len(epoch_train_loss)))
               /\ epoch_train_loss' = <<>>
               /\ raised' = "none"
          ELSE /\ raised' = "ZeroDivisionError"
               /\ UNCHANGED <<train_loss_history, R2_train_history,
                              epoch_train_loss>>]_vars

C3_AbsentMetricAppendsNothing ==
    [][/\ (Called("on_validation_epoch_end")
             /\ callback_metrics'["val_loss"] = None)
          => val_loss_history' = val_loss_history
       /\ (Called("on_train_epoch_end")
             /\ callback_metrics'["R2_train"] = None)
          => R2_train_history' = R2_train_history
       /\ (Called("on_validation_end") /\ callback_metrics'["R2_val"] = None)
          => R2_val_history' = R2_val_history
       /\ (Called("on_validation_end")
             /\ callback_metrics'["AUC_val"] = None
             /\ callback_metrics'["AUC_val1"] = None)
          => auc_val_history' = auc_val_history]_vars

AllSubScores(store) ==
    /\ store["AUC_val1"] # None
    /\ store["AUC_val2"] # None
    /\ store["AUC_val3"] # None

\* C4: on_validation_end appends exactly one entry to auc_val_history when
\* AUC_val is in the metric store, namely its scalar (0 included), and when
\* AUC_val is absent and AUC_val1..AUC_val3 are present, namely their mean.
C4_AucRecordedWheneverPresent ==
    [][Called("on_validation_end") =>
          /\ callback_metrics'["AUC_val"] # None =>
                 auc_val_history' =
                     Append(auc_val_history, callback_metrics'["AUC_val"])
          /\ (callback_metrics'["AUC_val"] = None
                /\ AllSubScores(callback_metrics')) =>
                 auc_val_history' =
                     Append(auc_val_history, SubScoreMean(callback_metrics'))
      ]_vars

-----------------------------------------------------------------------------
(* Properties of get_ROC_data and get_AUC, checked under SpecROC *)

ROCEnded == roc_pc \in {"returned", "raised"}

One == <<1, 1>>

Zero == <<0, 1>>

\* C5: for any two non-empty embedding sets get_ROC_data returns a curve
\* whose value at the last threshold, 1.0, is 1.0.
C5_LastThresholdIsOne ==
    ROCEnded =>
        /\ roc_pc = "returned"
        /\ fraction_correct[NumThresholds] = One

\* C6: the curve get_ROC_data returns is non-decreasing along the thresholds,
\* every value of it lies in [0, 1], and its value at threshold 0 is 0.
C6_CurveMonotoneFromZero ==
    roc_pc = "returned" =>
        /\ fraction_correct[1] = Zero
        /\ \A k \in 1..NumThresholds :
               /\ FracLeq(Zero, fraction_correct[k])
               /\ FracLeq(fraction_correct[k], One)
        /\ \A k \in 1..(NumThresholds - 1) :
               FracLeq(fraction_correct[k], fraction_correct[k + 1])

\* C6's case: a returned curve that rises through a value strictly between
\* 0 and 1 and does not end at 1.
C6_Witness ==
    /\ roc_pc = "returned"
    /\ roc_fn = "get_ROC_data"
    /\ \E k \in 1..NumThresholds : fraction_correct[k] = <<1, 3>>
    /\ fraction_correct[NumThresholds] = <<2, 3>>

\* C8: get_AUC returns a scalar in [0, 1] for every pair of non-empty
\* embedding sets.
C8_AucInUnitInterval ==
    (roc_fn = "get_AUC" /\ ROCEnded) =>
        /\ roc_pc = "returned"
        /\ FracLeq(Zero, auc)
        /\ FracLeq(auc, One)

\* What holds of get_AUC instead: whenever it returns, the scalar lies in
\* [0, 1]; it raises exactly when embs1 has a single row.
AucInUnitIntervalOrRaise ==
    /\ roc_pc = "raised" => Len(embs1) = 1
    /\ roc_pc = "returned" => Len(embs1) > 1
    /\ (roc_fn = "get_AUC" /\ roc_pc = "returned") =>
           (FracLeq(Zero, auc) /\ FracLeq(auc, One))

-----------------------------------------------------------------------------
(* Properties of the integration in get_AUC, checked under SpecTrapz *)

-----------------------------------------------------------------------------
(* Properties of calculate_metrics, checked under SpecMetrics *)

EqualLengths ==
    /\ Len(y_true) = Len(y_pred)
    /\ Len(y_true_label) = Len(y_pred)

C10_UnequalLengthsRaise ==
    /\ (cm_pc # "idle" /\ ~EqualLengths) => cm_pc = "raised"
    /\ cm_pc = "returned" =>
           /\ Len(results.y_pred) = Len(results.y_true)
           /\ Len(results.y_true) = Len(results.y_true_label)

Returned(t) == cm_pc = "returned" /\ task = t

\* The examples whose normalised residual |true - pred| / (1 + true) is
\* strictly greater than 0.15 = 3/20
Flagged ==
    {i \in DOMAIN y_true :
        \/ /\ 1 + y_true[i] > 0
           /\ 20 * Abs(y_true[i] - y_pred[i]) > 3 * (1 + y_true[i])
        \/ /\ 1 + y_true[i] = 0
           /\ y_true[i] # y_pred[i]}

\* C11: for non-empty true and predicted vectors of the same length the
\* regression metrics satisfy L1 >= 0, L2 >= 0 and 0 <= OLF <= 1, and OLF is
\* the fraction of examples whose normalised residual exceeds 0.15.
C11_RegressionRanges ==
    (Returned("regression") /\ Len(y_true) = Len(y_pred)) =>
        /\ FracLeq(<<0, 1>>, metrics.L1)
        /\ FracLeq(<<0, 1>>, metrics.L2.sqrt_of)
        /\ FracLeq(<<0, 1>>, metrics.OLF)
        /\ FracLeq(metrics.OLF, <<1, 1>>)
        /\ metrics.OLF = Frac(Cardinality(Flagged), Len(y_true))

\* C11's case: a regression call where the prediction overshoots one example
\* by more than the threshold and hits the other, so that OLF is 1/2.
C11_Witness ==
    /\ Returned("regression")
    /\ y_true = <<0, 1>>
    /\ y_pred = <<1, 1>>
    /\ metrics.OLF = <<1, 2>>
    /\ metrics.L1 = <<1, 2>>

NotAllEqual(v) == \E i, j \in DOMAIN v : v[i] # v[j]

\* C12: when the predicted values equal the true values elementwise and the
\* true values are not all equal, the regression metrics are L1 = 0, L2 = 0,
\* R2 = 1 and OLF = 0.
C12_PerfectRegression ==
    (Returned("regression") /\ y_pred = y_true /\ NotAllEqual(y_true)) =>
        /\ metrics.L1 = <<0, 1>>
        /\ metrics.L2 = [sqrt_of |-> <<0, 1>>]
        /\ metrics.R2 = <<1, 1>>
        /\ metrics.OLF = <<0, 1>>

\* C12's case: a perfect prediction of two different true values, one of
\* them -1, where the outlier test divides 0 by 0.
C12_Witness ==
    /\ Returned("regression")
    /\ y_pred = y_true
    /\ y_true = <<-1, 1>>
    /\ metrics.R2 = <<1, 1>>

\* C13: for a perfect predictor (the predicted labels equal the true labels
\* elementwise) all eight classification metrics equal 1.
C13_PerfectClassifier ==
    (Returned("classification") /\ y_pred = y_true_label) =>
        /\ metrics.mic_f1 = <<1, 1>>
        /\ metrics.mic_p = <<1, 1>>
        /\ metrics.mic_r = <<1, 1>>
        /\ metrics.mic_acc = <<1, 1>>
        /\ metrics.mac_f1 = <<1, 1>>
        /\ metrics.mac_p = <<1, 1>>
        /\ metrics.mac_r = <<1, 1>>
        /\ metrics.mac_acc = <<1, 1>>

\* C13's case: a perfect classification of examples that all belong to one
\* class, the other class being absent from the data.
C13_Witness ==
    /\ Returned("classification")
    /\ y_pred = y_true_label
    /\ ~NotAllEqual(y_true_label)
    /\ metrics.mac_f1 = <<1, 1>>

-----------------------------------------------------------------------------
(* Properties of get_class_dependent_predictions, checked under SpecClasses *)

\* The (row, class) pairs whose partition holds at least one example
NonEmptyPartitions ==
    {pair \in (1..Len(inputs)) \X (1..Len(class_names)) :
        \E i \in DOMAIN inputs[pair[1]].y_true_label :
            inputs[pair[1]].y_true_label[i] = class_names[pair[2]].label}

\* The positions of the emitted records of row r tagged with the given name
Emitted(r, name) ==
    {k \in DOMAIN class_results :
        /\ class_results[k].id = inputs[r].id
        /\ class_results[k].class = name}

\* C14: for each input record and each class of class_names exactly one
\* regression Metrics Record tagged with the class's name is emitted if the
\* record has an example of that class, and none if it has not; the number
\* of emitted records is the number of non-empty (record, class) partitions.
C14_OneRecordPerNonEmptyPartition ==
    gcdp_pc = "returned" =>
        /\ Len(class_results) = Cardinality(NonEmptyPartitions)
        /\ \A r \in DOMAIN inputs : \A c \in DOMAIN class_names :
               Cardinality(Emitted(r, class_names[c].name)) =
                   IF <<r, c>> \in NonEmptyPartitions THEN 1 ELSE 0
        /\ \A k \in DOMAIN class_results :
               DOMAIN class_results[k] =
                   {"Model", "Combination", "L1", "L2", "R2", "OLF", "id",
                    "class"}

\* C14's case: two records were handled, a class without any example was
\* passed over and a record was emitted for another.
C14_Witness ==
    /\ gcdp_pc = "returned"
    /\ Len(inputs) = 2
    /\ \E c \in DOMAIN class_names : class_names[c].label = 2
    /\ Len(class_results) = 2
    /\ Cardinality(NonEmptyPartitions) < Len(inputs) * Len(class_names)

-----------------------------------------------------------------------------
(* Properties of mergekfold_results, checked under SpecMerge *)

\* The positions of the input records with the given key
Members(key) == {k \in DOMAIN fold_results : KeyOf(fold_results[k]) = key}

InputKeys == {KeyOf(fold_results[k]) : k \in DOMAIN fold_results}

RECURSIVE TotalLen(_, _)
\* The summed length of a field over the input records at the positions
TotalLen(field, positions) ==
    IF positions = {} THEN 0
    ELSE LET k == CHOOSE x \in positions : TRUE
         IN  Len(fold_results[k][field]) + TotalLen(field, positions \ {k})

\* C15: the output has exactly one row per distinct (Model, Combination, id)
\* key of the input, and in each row the lengths of y_pred, y_true and
\* y_true_label are the sums of the lengths of the input records with the
\* row's key.
C15_OneRowPerKeyLengthsAdd ==
    merge_pc = "returned" =>
        /\ Len(concatenated_results) = Cardinality(InputKeys)
        /\ \A key \in InputKeys :
               Cardinality({r \in DOMAIN concatenated_results :
                               KeyOf(concatenated_results[r]) = key}) = 1
        /\ \A r \in DOMAIN concatenated_results :
               LET row == concatenated_results[r]
               IN  /\ KeyOf(row) \in InputKeys
                   /\ \A field \in {"y_pred", "y_true", "y_true_label"} :
                          Len(row[field]) = TotalLen(field, Members(KeyOf(row)))

\* C15's case: three records in two groups were merged, one group holding
\* two records.
C15_Witness ==
    /\ merge_pc = "returned"
    /\ Len(fold_results) = 3
    /\ Len(concatenated_results) = 2
    /\ \E r \in DOMAIN concatenated_results :
           Cardinality(Members(KeyOf(concatenated_results[r]))) = 2

\* The values of an array ascend strictly: every value tells the input
\* record and the example it came from, so this is the order of the input
Ascending(array) ==
    \A i, j \in DOMAIN array : i < j => array[i] < array[j]

ValuesOf(array) == {array[i] : i \in DOMAIN array}

\* The values of a field in the input records with the given key
InputValues(field, key) ==
    UNION {ValuesOf(fold_results[k][field]) : k \in Members(key)}

\* C16: within each group the concatenated values appear in the order of the
\* input records and of the examples within each record, and the output
\* rows are in ascending order of their (Model, Combination, id) key,
\* whatever the order in which the groups first appear in the input.
C16_InputOrderWithinSortedGroups ==
    merge_pc = "returned" =>
        /\ \A r \in DOMAIN concatenated_results :
               \A field \in {"y_pred", "y_true", "y_true_label"} :
                   LET row == concatenated_results[r]
                   IN  /\ Ascending(row[field])
                       /\ ValuesOf(row[field]) = InputValues(field, KeyOf(row))
        /\ \A r \in 1..(Len(concatenated_results) - 1) :
               KeyLess(KeyOf(concatenated_results[r]),
                       KeyOf(concatenated_results[r + 1]))

\* C16's case: the input starts with a record of the greatest key, holds two
\* records of the least key after it, and the least key heads the output.
C16_Witness ==
    /\ merge_pc = "returned"
    /\ Len(fold_results) = 3
    /\ KeyOf(fold_results[1]) = <<"knn", "spectral", 0>>
    /\ KeyOf(fold_results[2]) = <<"clip", "spectral", 1>>
    /\ KeyOf(fold_results[3]) = <<"clip", "spectral", 1>>
    /\ KeyOf(concatenated_results[1]) = <<"clip", "spectral", 1>>
    /\ Len(concatenated_results[1].y_pred) >= 2

\* The keys of the groups none of whose records has lc_data
KeysWithoutLC ==
    {key \in InputKeys :
        \A k \in Members(key) : fold_results[k].lc_data = NoRecord}

RowKeys == {KeyOf(concatenated_results[r]) : r \in DOMAIN concatenated_results}

\* C17 as stated: no error is raised for a group in which every record's
\* lc_data is absent, and such a group is dropped from the output.
C17_GroupWithoutLCDropped ==
    /\ (merge_pc = "raised") => fold_results = <<>>
    /\ merge_pc = "returned" => RowKeys \cap KeysWithoutLC = {}

\* C17, amended: no error is raised for a group in which every record's
\* lc_data is absent; the group keeps its row, with lc_data None, and the
\* lc_data of any other group is the concatenation, in input order, of the
\* lc_data of those of its records that have it.
C17_GroupWithoutLCKeepsRow ==
    /\ (merge_pc = "raised") => fold_results = <<>>
    /\ merge_pc = "returned" =>
           /\ KeysWithoutLC \subseteq RowKeys
           /\ \A r \in DOMAIN concatenated_results :
                  LET row == concatenated_results[r]
                      present == {k \in Members(KeyOf(row)) :
                                     fold_results[k].lc_data # NoRecord}
                  IN  IF KeyOf(row) \in KeysWithoutLC
                      THEN row.lc_data = NoRecord
                      ELSE /\ row.lc_data # NoRecord
                           /\ Ascending(row.lc_data.t_lc)
                           /\ ValuesOf(row.lc_data.t_lc) =
                                  UNION {ValuesOf(fold_results[k].lc_data.t_lc) :
                                            k \in present}

\* C17's case: a group without any lc_data and a group where one of two
\* records has lc_data were merged.
C17_Witness ==
    /\ merge_pc = "returned"
    /\ KeysWithoutLC # {}
    /\ \E r \in DOMAIN concatenated_results :
           /\ concatenated_results[r].lc_data # NoRecord
           /\ \E k \in Members(KeyOf(concatenated_results[r])) :
                  fold_results[k].lc_data = NoRecord

-----------------------------------------------------------------------------
(* Properties of the baseline predictors, checked under SpecBaseline *)

\* The estimator was fitted on the training data, and the vector returned is
\* what it predicts for the rows, one prediction per row
FittedOnTrainingPredicts(rows) ==
    /\ model.X = X
    /\ model.Y = Y
    /\ Len(predictions.data) = Len(rows)
    /\ predictions.data \in
           Predict([estimator |-> model.estimator, X |-> X, Y |-> Y,
                    n_neighbors |-> n_neighbors], rows)

\* C18 as stated: the model is fitted on the training data only, and the
\* vector returned has one prediction per validation example if validation
\* features are supplied, otherwise one per training example.
C18_PredictsOnValidationFeatures ==
    pred_pc = "returned" =>
        IF X_val # NoRecord
        THEN FittedOnTrainingPredicts(X_val.data)
        ELSE FittedOnTrainingPredicts(X)

\* What holds instead: the vector returned has one prediction per validation
\* example only if both the validation features and the validation targets
\* are supplied, otherwise (validation features without targets included)
\* one per training example.
PredictsOnValidationPairOrTraining ==
    pred_pc = "returned" =>
        IF X_val # NoRecord /\ Y_val # NoRecord
        THEN FittedOnTrainingPredicts(X_val.data)
        ELSE FittedOnTrainingPredicts(X)

\* Two strings are the same up to the case of their letters
SameIgnoringCase(a, b) ==
    /\ Len(a) = Len(b)
    /\ \A i \in DOMAIN a :
           \/ a[i] = b[i]
           \/ \E j \in DOMAIN UpperCase :
                  {a[i], b[i]} = {UpperCase[j], LowerCase[j]}

KnownTask(str) ==
    \/ SameIgnoringCase(str, RegressionStr)
    \/ SameIgnoringCase(str, ClassificationStr)

\* C19 as stated: both predictors raise, returning no predictions, for any
\* task string other than "regression" and "classification".
C19_OtherTaskStringsRaise ==
    (pred_pc # "idle" /\ pred_task \notin {RegressionStr, ClassificationStr}) =>
        /\ pred_pc = "raised"
        /\ predictions = NoRecord

\* C19, amended: both predictors raise ValueError, fitting no model and
\* returning no predictions, for any task string that is neither
\* "regression" nor "classification" once its letters are put in lower
\* case; a string that differs from these two only in case is accepted.
C19_OtherTasksIgnoringCaseRaise ==
    pred_pc # "idle" =>
        /\ ~KnownTask(pred_task) =>
               /\ pred_pc = "raised"
               /\ pred_raised = "ValueError: Invalid task"
               /\ model = NoRecord
               /\ predictions = NoRecord
        /\ KnownTask(pred_task) => pred_raised # "ValueError: Invalid task"

\* C19's case: the task string "redshift" was refused by the neighbours
\* predictor.
C19_Witness ==
    /\ pred_task = <<"r", "e", "d", "s", "h", "i", "f", "t">>
    /\ predictor = "get_knn_predictions"
    /\ pred_pc = "raised"
    /\ pred_raised = "ValueError: Invalid task"

-----------------------------------------------------------------------------
(* Properties of get_embs, checked under SpecEmbs *)

\* The modality names asked for
RequestedSet == {combinations[i] : i \in DOMAIN combinations}

\* The examples the dataloader yields, in the order it yields them
Yielded == Concatenate(dataloader)

\* The place of a modality among the requested ones, in the fixed order of
\* the encoders
PlaceOf(modality) ==
    Cardinality({j \in DOMAIN combs_all :
                    /\ combs_all[j] \in RequestedSet
                    /\ j <= CHOOSE i \in DOMAIN combs_all :
                                combs_all[i] = modality})

\* C20: for each requested modality the returned tensor is the
\* concatenation of that modality's per-batch embeddings in the order the
\* data source is iterated, so that row k of every returned tensor belongs
\* to the k-th example yielded; and an embedding is computed only for
\* modalities in the requested set.
C20_RowsFollowIterationOrder ==
    /\ \A c \in DOMAIN encoder_calls : encoder_calls[c][1] \in RequestedSet
    /\ embs_pc = "returned" =>
           /\ Len(embs_returned.embs) = Cardinality(RequestedSet)
           /\ \A modality \in RequestedSet :
                  LET tensor == embs_returned.embs[PlaceOf(modality)]
                  IN  /\ Len(tensor) = Len(Yielded)
                      /\ \A k \in DOMAIN tensor :
                             tensor[k] = Embed(modality, Yielded[k])

\* C20's case: two modalities, asked for against the fixed order, were
\* embedded over two batches of different sizes.
C20_Witness ==
    /\ embs_pc = "returned"
    /\ combinations = <<"meta", "host_galaxy">>
    /\ Len(dataloader) = 2
    /\ Len(dataloader[1]) # Len(dataloader[2])
    /\ Len(encoder_calls) = 4
    /\ embs_returned.embs[1][3] = Embed("host_galaxy", 3)

\* The place of a name in the fixed order of the encoders
CanonicalPlace(name) == CHOOSE i \in DOMAIN combs_all : combs_all[i] = name

\* C21: with ret_combs=True, for a combinations list in any order, the list
\* of tensors and the array of names returned have the same length, the
\* names are the requested modalities in the fixed order host_galaxy,
\* lightcurve, spectral, meta, and the i-th tensor holds the embeddings of
\* the i-th name.
C21_NamesMatchTensors ==
    (embs_pc = "returned" /\ ret_combs) =>
        LET names   == embs_returned.combs
            tensors == embs_returned.embs
        IN  /\ Len(tensors) = Len(names)
            /\ {names[i] : i \in DOMAIN names} = RequestedSet
            /\ \A i \in DOMAIN names :
                   \E j \in DOMAIN combs_all : combs_all[j] = names[i]
            /\ \A i, j \in DOMAIN names :
                   i < j => CanonicalPlace(names[i]) < CanonicalPlace(names[j])
            /\ \A i \in DOMAIN names : \A r \in DOMAIN tensors[i] :
                   tensors[i][r].modality = names[i]

\* C21's case: meta and host_galaxy were asked for in this order over a
\* non-empty dataloader, and the names came back with host_galaxy first.
C21_Witness ==
    /\ embs_pc = "returned"
    /\ ret_combs
    /\ combinations = <<"meta", "host_galaxy">>
    /\ embs_returned.combs = <<"host_galaxy", "meta">>
    /\ Len(embs_returned.embs[1]) > 0

-----------------------------------------------------------------------------
(* Properties of filter_classes, checked under SpecFilter *)

\* C22: with target_classes = [0, 1, 2] and every label one of 0, 1, 2 the
\* call changes nothing: every X of X_list and every entry of lc_data comes
\* back with all its rows in the original order, and the remapped labels
\* are the original labels.
C22_AllClassesIsNoOp ==
    (fc_pc = "returned" /\ target_classes = <<0, 1, 2>>) =>
        /\ filtered_X_list = X_list
        /\ filtered_lc_data = fc_lc_data
        /\ remapped_y = y_labels

\* C22's case: three examples, one of each class and not in class order,
\* with lc_data, were filtered with target_classes = [0, 1, 2].
C22_Witness ==
    /\ fc_pc = "returned"
    /\ target_classes = <<0, 1, 2>>
    /\ y_labels = <<2, 0, 1>>
    /\ fc_lc_data # NoRecord
    /\ remapped_y = <<2, 0, 1>>

\* The examples whose original label is among the target classes
KeptExamples ==
    {i \in DOMAIN y_labels :
        \E j \in DOMAIN target_classes : target_classes[j] = y_labels[i]}

NoDuplicates(list) ==
    \A i, j \in DOMAIN list : list[i] = list[j] => i = j

\* A filtered tensor holds the rows of the kept examples, in original order
KeepsKeptRows(filtered, original) ==
    /\ Len(filtered) = Cardinality(KeptExamples)
    /\ Ascending(filtered)
    /\ ValuesOf(filtered) = {original[i] : i \in KeptExamples}

\* C27: for target_classes without duplicates, the filtered X tensors, the
\* filtered lc_data entries and the remapped label vector keep exactly the
\* examples whose original label is in target_classes, in original order
\* and with equal lengths, and each remapped label is the position of the
\* example's original label in target_classes, hence within
\* 0..len(target_classes)-1.
C27_KeepsTargetsAndRemapsByPosition ==
    (fc_pc = "returned" /\ NoDuplicates(target_classes)) =>
        /\ \A m \in DOMAIN X_list :
               KeepsKeptRows(filtered_X_list[m], X_list[m])
        /\ fc_lc_data # NoRecord =>
               \A key \in DOMAIN fc_lc_data :
                   KeepsKeptRows(filtered_lc_data[key], fc_lc_data[key])
        /\ fc_lc_data = NoRecord => filtered_lc_data = NoRecord
        /\ Len(remapped_y) = Cardinality(KeptExamples)
        /\ \A r \in DOMAIN remapped_y :
               LET example == filtered_X_list[1][r] - 10
               IN  /\ remapped_y[r] \in 0..(Len(target_classes) - 1)
                   /\ target_classes[remapped_y[r] + 1] = y_labels[example]

\* C27's case: target_classes = [1, 0], whose ids overlap with the new ids,
\* on examples of all three classes.
C27_Witness ==
    /\ fc_pc = "returned"
    /\ target_classes = <<1, 0>>
    /\ y_labels = <<0, 2, 1>>
    /\ fc_lc_data # NoRecord
    /\ remapped_y = <<1, 0>>

-----------------------------------------------------------------------------
(* Properties of get_checkpoint_paths, checked under SpecCkpt *)

Epoch3Step9 ==
    <<"e", "p", "o", "c", "h", "=", "3", "-", "s", "t", "e", "p", "=", "9",
      ".", "c", "k", "p", "t">>

Epoch12Step9 ==
    <<"e", "p", "o", "c", "h", "=", "1", "2", "-", "s", "t", "e", "p", "=",
      "9", ".", "c", "k", "p", "t">>

Epoch3V2 ==
    <<"e", "p", "o", "c", "h", "=", "3", "-", "v", "2", ".", "c", "k", "p",
      "t">>

EpochBest ==
    <<"e", "p", "o", "c", "h", "=", "b", "e", "s", "t", "-", "s", "t", "e",
      "p", "=", "9", ".", "c", "k", "p", "t">>

\* The epoch number of each well-formed checkpoint filename, read off the
\* name; the other filenames are no checkpoint or have no epoch number
EpochOf == (Epoch3Step9 :> 3) @@ (Epoch12Step9 :> 12) @@ (Epoch3V2 :> 3)

\* The well-formed checkpoint filenames of directory d
WellFormed(d) ==
    {walk[d].filenames[i] : i \in DOMAIN walk[d].filenames} \cap DOMAIN EpochOf

\* C23: a .ckpt filename whose epoch number cannot be parsed is skipped
\* without aborting the scan, and for every directory with at least one
\* well-formed checkpoint filename the path of a checkpoint with the
\* smallest epoch number in it is returned, one path per such directory;
\* the name and id lists returned are as long as the path list.
C23_SmallestEpochPerDirectory ==
    ckpt_pc = "returned" =>
        LET paths == ckpt_returned.paths
        IN  /\ Len(ckpt_returned.names) = Len(paths)
            /\ Len(ckpt_returned.ids) = Len(paths)
            /\ Len(paths) = Cardinality({d \in DOMAIN walk : WellFormed(d) # {}})
            /\ \A d \in DOMAIN walk :
                   WellFormed(d) # {} =>
                       \E i \in DOMAIN paths :
                           /\ paths[i].dirpath = walk[d].dirpath
                           /\ paths[i].filename \in WellFormed(d)
                           /\ \A other \in WellFormed(d) :
                                  EpochOf[paths[i].filename] <= EpochOf[other]

\* C23's case: the first directory lists a malformed checkpoint name before
\* a well-formed one, the second lists epoch 12 before epoch 3.
C23_Witness ==
    /\ ckpt_pc = "returned"
    /\ walk[1].filenames = <<EpochBest, Epoch12Step9>>
    /\ walk[2].filenames = <<Epoch12Step9, Epoch3V2>>
    /\ Len(ckpt_returned.paths) = 2
    /\ ckpt_returned.paths[1].filename = Epoch12Step9
    /\ ckpt_returned.paths[2].filename = Epoch3V2

-----------------------------------------------------------------------------
(* Properties of plot_ROC_curves, checked under SpecPlot *)

\* C25: the label "X and Y" of each curve names exactly the two modalities
\* whose embedding tensors were used to compute the curve, for every subset
\* of the four modalities.
C25_LabelNamesTensorsUsed ==
    \A c \in DOMAIN curve_labels :
        {curve_labels[c].label[1], curve_labels[c].label[2]} =
            {curve_labels[c].tensors[1], curve_labels[c].tensors[2]}

\* Where the labels do name the tensors used: unless meta and spectral are
\* both among three or more modalities
LabelsRightUnlessMetaAndSpectral ==
    ~ (/\ Len(plot_combinations) >= 3
       /\ {"meta", "spectral"} \subseteq {plot_combinations[i] :
                                              i \in DOMAIN plot_combinations})
    => C25_LabelNamesTensorsUsed

-----------------------------------------------------------------------------
(* The auxiliary arrays of mergekfold_results, checked under SpecMerge *)

\* C26: in every output row whose lc_data is not None, each concatenated
\* auxiliary array (x_lc, t_lc, mask_lc) has as many examples as the row's
\* concatenated y_pred, y_true and y_true_label, also for a group in which
\* only some of the records carry auxiliary data.
C26_AuxiliaryArraysAlignWithPredictions ==
    merge_pc = "returned" =>
        \A r \in DOMAIN concatenated_results :
            LET row == concatenated_results[r]
            IN  row.lc_data # NoRecord =>
                    \A key \in {"x_lc", "t_lc", "mask_lc"} :
                        /\ Len(row.lc_data[key]) = Len(row.y_pred)
                        /\ Len(row.lc_data[key]) = Len(row.y_true)
                        /\ Len(row.lc_data[key]) = Len(row.y_true_label)

\* The lengths agree in the rows of the groups whose records all carry
\* auxiliary data
AlignedWhereEveryRecordHasLC ==
    merge_pc = "returned" =>
        \A r \in DOMAIN concatenated_results :
            LET row == concatenated_results[r]
            IN  (\A k \in Members(KeyOf(row)) :
                     fold_results[k].lc_data # NoRecord)
                => /\ row.lc_data # NoRecord
                   /\ \A key \in {"x_lc", "t_lc", "mask_lc"} :
                          /\ Len(row.lc_data[key]) = Len(row.y_pred)
                          /\ Len(row.lc_data[key]) = Len(row.y_true)
                          /\ Len(row.lc_data[key]) = Len(row.y_true_label)

-----------------------------------------------------------------------------
(* What each callback of LossTrackingCallback leaves alone, checked under
   Spec *)

\* C24: under any interleaving of training and validation callbacks,
\* on_validation_epoch_end and on_validation_end leave train_loss_history,
\* R2_train_history and the step-loss accumulator unchanged;
\* on_train_batch_end and on_train_epoch_end leave val_loss_history,
\* R2_val_history and auc_val_history unchanged; on_train_batch_end changes
\* only the accumulator.
C24_CallbacksKeepToTheirHistories ==
    [][/\ (Called("on_validation_epoch_end") \/ Called("on_validation_end"))
          => UNCHANGED <<train_loss_history, R2_train_history,
                         epoch_train_loss>>
       /\ (Called("on_train_batch_end") \/ Called("on_train_epoch_end"))
          => UNCHANGED <<val_loss_history, R2_val_history, auc_val_history>>
       /\ Called("on_train_batch_end")
          => /\ UNCHANGED <<train_loss_history, R2_train_history,
                            val_loss_history, R2_val_history,
                            auc_val_history>>
             /\ epoch_train_loss # epoch_train_loss']_vars

\* C24's case: a validation round ran while the step losses of an unfinished
\* training epoch were held, and all of them are still there.
C24_Witness ==
    /\ calls["on_train_batch_end"] = 2
    /\ calls["on_validation_epoch_end"] = 1
    /\ calls["on_validation_end"] = 1
    /\ calls["on_train_epoch_end"] = 0
    /\ Len(epoch_train_loss) = 2
    /\ Len(val_loss_history) = 1
    /\ Len(R2_val_history) = 1
    /\ train_loss_history = <<>>

=============================================================================
